---- MODULE Spec2Model ----
(***************************************************************************)
(* The classification engine of ProfileEnhancer (src/classifier.py,        *)
(* class SingaporeClassifier): the lexical scorers, the two-tier matchers, *)
(* the industry/occupation compatibility table, the AI-assisted selectors  *)
(* with their fallbacks, and classify_job as a step machine.               *)
(*                                                                         *)
(* A Python str is a sequence of one-character strings, so that lower(),   *)
(* split(), slicing and the substring test `a in b` are computed, not      *)
(* assumed.  A float score is a natural number of 1/SCALE units.           *)
(***************************************************************************)
EXTENDS Integers, Sequences, FiniteSets, TLC

VARIABLES
  ssic_df,              \* self.ssic_df: the industry table, rows [code, title]
  ssoc_df,              \* self.ssoc_df: the occupation table
  company,              \* classify_job's arguments
  job_title,
  job_description,
  api_key,
  calls,                \* the calls of classify_job made on this engine so far
  pc,                   \* classify_job's position
  company_description,  \* classify_job's locals
  sso,
  ssic,
  result,               \* the returned record, NoResult before the return
  raised,               \* TRUE when an exception left classify_job
  steps,                \* the steps run so far, in order
  llm_calls,            \* the LLM calls made so far, in order
  probe                 \* the outcome of a direct call of a matcher

vars == << ssic_df, ssoc_df, company, job_title, job_description, api_key, calls, pc,
           company_description, sso, ssic, result, raised, steps, llm_calls, probe >>

-----------------------------------------------------------------------------
(* Python values *)

\* None; no str is equal to it.
None == << "None" >>

\* str(x) as an f-string renders it.
Str(x) == IF x = None THEN <<"N","o","n","e">> ELSE x

\* bool(x) of a str or None.
Truthy(x) == x # None /\ x # << >>

Min(a, b) == IF a < b THEN a ELSE b
Max(a, b) == IF a > b THEN a ELSE b

Range(s) == { s[i] : i \in 1..Len(s) }

Uppers == <<"A","B","C","D","E","F","G","H","I","J","K","L","M","N","O","P","Q","R","S","T","U","V","W","X","Y","Z">>
Lowers == <<"a","b","c","d","e","f","g","h","i","j","k","l","m","n","o","p","q","r","s","t","u","v","w","x","y","z">>
Digits == Range(<<"0","1","2","3","4","5","6","7","8","9">>)

\* str.lower(), character by character
LowerOf == [ c \in Range(Uppers) |-> Lowers[CHOOSE i \in 1..Len(Uppers) : Uppers[i] = c] ]

LowerChar(c) == IF c \in DOMAIN LowerOf THEN LowerOf[c] ELSE c

Lower(t) == [ i \in 1..Len(t) |-> LowerChar(t[i]) ]

\* a in b, for two str
IsSubstr(a, b) ==
  \/ a = << >>
  \/ \E i \in 1..(Len(b) - Len(a) + 1) :
        b[i] = a[1] /\ SubSeq(b, i, i + Len(a) - 1) = a

\* str.startswith
StartsWith(s, p) == Len(s) >= Len(p) /\ SubSeq(s, 1, Len(p)) = p

\* s[:n]
Prefix(s, n) == SubSeq(s, 1, Min(n, Len(s)))

\* a + " " + b
Sp(a, b) == a \o << " " >> \o b

\* set(text.split()): the maximal runs of non-blank characters.
WordEnd(t, i) == CHOOSE j \in i..Len(t) :
                   /\ \A k \in i..j : t[k] # " "
                   /\ (j = Len(t) \/ t[j + 1] = " ")

Words(t) ==
  { SubSeq(t, i, WordEnd(t, i)) :
      i \in { k \in 1..Len(t) : t[k] # " " /\ (k = 1 \/ t[k - 1] = " ") } }

\* str.strip()
RECURSIVE Strip(_)
Strip(t) ==
  IF t = << >> THEN t
  ELSE IF t[1] = " " THEN Strip(Tail(t))
  ELSE IF t[Len(t)] = " " THEN Strip(SubSeq(t, 1, Len(t) - 1))
  ELSE t

\* ''.join(filter(str.isdigit, t))
OnlyDigits(t) == SelectSeq(t, LAMBDA c : c \in Digits)

-----------------------------------------------------------------------------
(* Scores *)

\* One unit of score is 1/SCALE; SCALE has the divisors the weights need.
SCALE == 2520 * 1000

\* a / n
Frac(a, n) == (a * SCALE) \div n

\* x * (p / 100)
Times(x, p) == (x * p) \div 100

\* round(score * 100, 1), in tenths of a percent
Percent(score) == (score + (SCALE \div 2000)) \div (SCALE \div 1000)

-----------------------------------------------------------------------------
(* Lexical similarity toolkit *)

\* all_synonyms = {**tech_synonyms, **business_synonyms}
all_synonyms == <<
  [key |-> <<"s","o","f","t","w","a","r","e">>,    synonyms |-> {<<"a","p","p","l","i","c","a","t","i","o","n">>, <<"p","r","o","g","r","a","m">>, <<"s","y","s","t","e","m">>, <<"p","l","a","t","f","o","r","m">>, <<"s","o","l","u","t","i","o","n">>}],
  [key |-> <<"d","e","v","e","l","o","p","m","e","n","t">>, synonyms |-> {<<"p","r","o","g","r","a","m","m","i","n","g">>, <<"c","o","d","i","n","g">>, <<"e","n","g","i","n","e","e","r","i","n","g">>, <<"b","u","i","l","d","i","n","g">>}],
  [key |-> <<"d","a","t","a">>,        synonyms |-> {<<"i","n","f","o","r","m","a","t","i","o","n">>, <<"a","n","a","l","y","t","i","c","s">>, <<"i","n","t","e","l","l","i","g","e","n","c","e">>, <<"s","t","a","t","i","s","t","i","c","s">>}],
  [key |-> <<"d","i","g","i","t","a","l">>,     synonyms |-> {<<"e","l","e","c","t","r","o","n","i","c">>, <<"o","n","l","i","n","e">>, <<"t","e","c","h","n","o","l","o","g","y">>, <<"c","y","b","e","r">>}],
  [key |-> <<"w","e","b">>,         synonyms |-> {<<"i","n","t","e","r","n","e","t">>, <<"o","n","l","i","n","e">>, <<"w","e","b","s","i","t","e">>, <<"p","o","r","t","a","l">>}],
  [key |-> <<"m","o","b","i","l","e">>,      synonyms |-> {<<"s","m","a","r","t","p","h","o","n","e">>, <<"a","p","p">>, <<"c","e","l","l","u","l","a","r">>, <<"w","i","r","e","l","e","s","s">>}],
  [key |-> <<"c","l","o","u","d">>,       synonyms |-> {<<"d","i","s","t","r","i","b","u","t","e","d">>, <<"r","e","m","o","t","e">>, <<"v","i","r","t","u","a","l">>, <<"h","o","s","t","e","d">>}],
  [key |-> <<"a","i">>,          synonyms |-> {<<"a","r","t","i","f","i","c","i","a","l"," ","i","n","t","e","l","l","i","g","e","n","c","e">>, <<"m","a","c","h","i","n","e"," ","l","e","a","r","n","i","n","g">>, <<"a","u","t","o","m","a","t","i","o","n">>}],
  [key |-> <<"m","a","n","a","g","e","m","e","n","t">>,  synonyms |-> {<<"a","d","m","i","n","i","s","t","r","a","t","i","o","n">>, <<"s","u","p","e","r","v","i","s","i","o","n">>, <<"l","e","a","d","e","r","s","h","i","p">>, <<"o","v","e","r","s","i","g","h","t">>}],
  [key |-> <<"c","o","n","s","u","l","t","i","n","g">>,  synonyms |-> {<<"a","d","v","i","s","o","r","y">>, <<"g","u","i","d","a","n","c","e">>, <<"e","x","p","e","r","t","i","s","e">>, <<"p","r","o","f","e","s","s","i","o","n","a","l"," ","s","e","r","v","i","c","e","s">>}],
  [key |-> <<"s","a","l","e","s">>,       synonyms |-> {<<"m","a","r","k","e","t","i","n","g">>, <<"b","u","s","i","n","e","s","s"," ","d","e","v","e","l","o","p","m","e","n","t">>, <<"r","e","v","e","n","u","e">>, <<"c","o","m","m","e","r","c","i","a","l">>}],
  [key |-> <<"f","i","n","a","n","c","e">>,     synonyms |-> {<<"f","i","n","a","n","c","i","a","l">>, <<"b","a","n","k","i","n","g">>, <<"i","n","v","e","s","t","m","e","n","t">>, <<"m","o","n","e","t","a","r","y">>}],
  [key |-> <<"o","p","e","r","a","t","i","o","n","s">>,  synonyms |-> {<<"p","r","o","d","u","c","t","i","o","n">>, <<"m","a","n","u","f","a","c","t","u","r","i","n","g">>, <<"p","r","o","c","e","s","s","i","n","g">>, <<"w","o","r","k","f","l","o","w">>}] >>

\* One synonym rule adds 0.08 for the pair (word1, word2) under entry e.
SynonymHit(word1, word2, e) ==
  \/ word1 \in e.synonyms /\ word2 \in e.synonyms
  \/ word1 = e.key /\ word2 \in e.synonyms
  \/ word2 = e.key /\ word1 \in e.synonyms

\* The score of _calculate_semantic_similarity from the two word sets: 0.1 for
\* every word in both, 0.08 for every synonym rule a pair of distinct words meets.
SemanticOfWords(text1_words, text2_words) ==
  Min(Cardinality(text1_words \cap text2_words) * (SCALE \div 10)
      + Cardinality({ t \in text1_words \X text2_words \X Range(all_synonyms) :
                        t[1] # t[2] /\ SynonymHit(t[1], t[2], t[3]) }) * ((SCALE * 8) \div 100),
      SCALE)

_calculate_semantic_similarity(text1, text2) ==
  SemanticOfWords(Words(Lower(text1)), Words(Lower(text2)))

\* The search words counted as partial matches.
PartialMatches(search_words, target_words) ==
  { search_word \in search_words :
      \E target_word \in target_words :
         /\ Len(search_word) >= 4
         /\ (IsSubstr(search_word, target_word) \/ IsSubstr(target_word, search_word)) }

\* The body of enhanced_text_matching once the two word sets are built.
TextMatchOfWords(search_words, target_words, semantic_score) ==
  IF search_words = {} \/ target_words = {} THEN 0
  ELSE
    LET exact_score == Frac(Cardinality(search_words \cap target_words), Cardinality(search_words))
        partial_score == Frac(Cardinality(PartialMatches(search_words, target_words)),
                              Cardinality(search_words))
        final_score == Times(exact_score, 50) + Times(partial_score, 30) + Times(semantic_score, 20)
    IN  Min(final_score, SCALE)

enhanced_text_matching(search_text, target_text) ==
  TextMatchOfWords(Words(Lower(search_text)), Words(Lower(target_text)),
                   _calculate_semantic_similarity(search_text, target_text))

-----------------------------------------------------------------------------
(* Keyword extractors *)

\* The industry vocabulary, in the order of the source list (four entries occur twice).
industry_keywords ==
  <<
    <<"t","e","c","h","n","o","l","o","g","y">>, <<"t","e","c","h">>, <<"s","o","f","t","w","a","r","e">>, <<"i","t">>,
    <<"i","n","f","o","r","m","a","t","i","o","n"," ","t","e","c","h","n","o","l","o","g","y">>, <<"d","i","g","i","t","a","l">>, <<"c","y","b","e","r">>, <<"c","y","b","e","r","s","e","c","u","r","i","t","y">>,
    <<"p","r","o","g","r","a","m","m","i","n","g">>, <<"d","e","v","e","l","o","p","m","e","n","t">>, <<"w","e","b">>, <<"m","o","b","i","l","e">>,
    <<"c","l","o","u","d">>, <<"a","i">>, <<"a","r","t","i","f","i","c","i","a","l"," ","i","n","t","e","l","l","i","g","e","n","c","e">>, <<"m","a","c","h","i","n","e"," ","l","e","a","r","n","i","n","g">>,
    <<"d","a","t","a">>, <<"a","n","a","l","y","t","i","c","s">>, <<"b","l","o","c","k","c","h","a","i","n">>, <<"f","i","n","t","e","c","h">>,
    <<"s","a","a","s">>, <<"p","l","a","t","f","o","r","m">>, <<"a","p","i">>, <<"d","a","t","a","b","a","s","e">>,
    <<"m","a","n","u","f","a","c","t","u","r","i","n","g">>, <<"p","r","o","d","u","c","t","i","o","n">>, <<"f","a","c","t","o","r","y">>, <<"a","s","s","e","m","b","l","y">>,
    <<"i","n","d","u","s","t","r","i","a","l">>, <<"a","u","t","o","m","o","t","i","v","e">>, <<"e","l","e","c","t","r","o","n","i","c","s">>, <<"m","a","c","h","i","n","e","r","y">>,
    <<"e","q","u","i","p","m","e","n","t">>, <<"p","r","o","c","e","s","s","i","n","g">>, <<"p","a","c","k","a","g","i","n","g">>, <<"q","u","a","l","i","t","y"," ","c","o","n","t","r","o","l">>,
    <<"s","u","p","p","l","y"," ","c","h","a","i","n">>, <<"f","i","n","a","n","c","e">>, <<"f","i","n","a","n","c","i","a","l">>, <<"b","a","n","k","i","n","g">>,
    <<"i","n","s","u","r","a","n","c","e">>, <<"i","n","v","e","s","t","m","e","n","t">>, <<"w","e","a","l","t","h"," ","m","a","n","a","g","e","m","e","n","t">>, <<"a","c","c","o","u","n","t","i","n","g">>,
    <<"a","u","d","i","t">>, <<"c","o","m","p","l","i","a","n","c","e">>, <<"r","i","s","k">>, <<"t","r","a","d","i","n","g">>,
    <<"f","u","n","d">>, <<"c","a","p","i","t","a","l">>, <<"s","e","c","u","r","i","t","i","e","s">>, <<"f","i","n","t","e","c","h">>,
    <<"h","e","a","l","t","h","c","a","r","e">>, <<"m","e","d","i","c","a","l">>, <<"h","o","s","p","i","t","a","l">>, <<"c","l","i","n","i","c">>,
    <<"p","h","a","r","m","a","c","e","u","t","i","c","a","l">>, <<"b","i","o","t","e","c","h">>, <<"n","u","r","s","i","n","g">>, <<"t","h","e","r","a","p","y">>,
    <<"t","r","e","a","t","m","e","n","t">>, <<"p","a","t","i","e","n","t">>, <<"c","l","i","n","i","c","a","l">>, <<"d","i","a","g","n","o","s","t","i","c">>,
    <<"s","u","r","g","e","r","y">>, <<"m","e","d","i","c","i","n","e">>, <<"e","d","u","c","a","t","i","o","n">>, <<"s","c","h","o","o","l">>,
    <<"u","n","i","v","e","r","s","i","t","y">>, <<"t","r","a","i","n","i","n","g">>, <<"t","e","a","c","h","i","n","g">>, <<"l","e","a","r","n","i","n","g">>,
    <<"a","c","a","d","e","m","i","c">>, <<"c","u","r","r","i","c","u","l","u","m">>, <<"i","n","s","t","r","u","c","t","i","o","n">>, <<"r","e","s","e","a","r","c","h">>,
    <<"s","t","u","d","e","n","t">>, <<"f","a","c","u","l","t","y">>, <<"t","u","i","t","i","o","n">>, <<"r","e","t","a","i","l">>,
    <<"s","a","l","e","s">>, <<"s","h","o","p">>, <<"s","t","o","r","e">>, <<"c","o","m","m","e","r","c","e">>,
    <<"e","c","o","m","m","e","r","c","e">>, <<"s","h","o","p","p","i","n","g">>, <<"c","u","s","t","o","m","e","r">>, <<"m","e","r","c","h","a","n","d","i","s","e">>,
    <<"i","n","v","e","n","t","o","r","y">>, <<"o","u","t","l","e","t">>, <<"c","h","a","i","n">>, <<"f","r","a","n","c","h","i","s","e">>,
    <<"m","a","r","k","e","t","p","l","a","c","e">>, <<"c","o","n","s","t","r","u","c","t","i","o","n">>, <<"b","u","i","l","d","i","n","g">>, <<"e","n","g","i","n","e","e","r","i","n","g">>,
    <<"a","r","c","h","i","t","e","c","t","u","r","e">>, <<"r","e","a","l"," ","e","s","t","a","t","e">>, <<"p","r","o","p","e","r","t","y">>, <<"d","e","v","e","l","o","p","m","e","n","t">>,
    <<"i","n","f","r","a","s","t","r","u","c","t","u","r","e">>, <<"c","i","v","i","l">>, <<"s","t","r","u","c","t","u","r","a","l">>, <<"c","o","n","t","r","a","c","t","o","r">>,
    <<"l","o","g","i","s","t","i","c","s">>, <<"t","r","a","n","s","p","o","r","t">>, <<"s","h","i","p","p","i","n","g">>, <<"d","e","l","i","v","e","r","y">>,
    <<"f","r","e","i","g","h","t">>, <<"w","a","r","e","h","o","u","s","e">>, <<"d","i","s","t","r","i","b","u","t","i","o","n">>, <<"s","u","p","p","l","y"," ","c","h","a","i","n">>,
    <<"c","o","u","r","i","e","r">>, <<"t","r","u","c","k","i","n","g">>, <<"m","a","r","i","t","i","m","e">>, <<"a","v","i","a","t","i","o","n">>,
    <<"r","a","i","l">>, <<"h","o","s","p","i","t","a","l","i","t","y">>, <<"h","o","t","e","l">>, <<"r","e","s","t","a","u","r","a","n","t">>,
    <<"f","o","o","d">>, <<"t","o","u","r","i","s","m">>, <<"c","a","t","e","r","i","n","g">>, <<"b","e","v","e","r","a","g","e">>,
    <<"a","c","c","o","m","m","o","d","a","t","i","o","n">>, <<"t","r","a","v","e","l">>, <<"r","e","s","o","r","t">>, <<"d","i","n","i","n","g">>,
    <<"c","u","l","i","n","a","r","y">>, <<"t","e","l","e","c","o","m","m","u","n","i","c","a","t","i","o","n","s">>, <<"t","e","l","e","c","o","m">>, <<"c","o","m","m","u","n","i","c","a","t","i","o","n","s">>,
    <<"m","e","d","i","a">>, <<"b","r","o","a","d","c","a","s","t","i","n","g">>, <<"p","u","b","l","i","s","h","i","n","g">>, <<"a","d","v","e","r","t","i","s","i","n","g">>,
    <<"m","a","r","k","e","t","i","n","g">>, <<"p","u","b","l","i","c"," ","r","e","l","a","t","i","o","n","s">>, <<"j","o","u","r","n","a","l","i","s","m">>, <<"c","o","n","t","e","n","t">>,
    <<"a","g","r","i","c","u","l","t","u","r","e">>, <<"f","a","r","m","i","n","g">>, <<"a","g","r","i","c","u","l","t","u","r","a","l">>, <<"g","o","v","e","r","n","m","e","n","t">>,
    <<"p","u","b","l","i","c">>, <<"c","i","v","i","l"," ","s","e","r","v","i","c","e">>, <<"c","o","n","s","u","l","t","i","n","g">>, <<"a","d","v","i","s","o","r","y">>,
    <<"p","r","o","f","e","s","s","i","o","n","a","l"," ","s","e","r","v","i","c","e","s">>, <<"l","e","g","a","l">>, <<"l","a","w">>, <<"e","n","e","r","g","y">>,
    <<"u","t","i","l","i","t","i","e","s">>, <<"p","o","w","e","r">>, <<"o","i","l">>, <<"g","a","s">>,
    <<"r","e","n","e","w","a","b","l","e">>, <<"s","u","s","t","a","i","n","a","b","i","l","i","t","y">>, <<"r","e","s","e","a","r","c","h">>, <<"l","a","b","o","r","a","t","o","r","y">>,
    <<"s","c","i","e","n","t","i","f","i","c">>, <<"i","n","n","o","v","a","t","i","o","n">> >>

\* The job-role vocabulary, in the order of the source list.
job_keywords ==
  <<
    <<"s","o","f","t","w","a","r","e"," ","e","n","g","i","n","e","e","r">>, <<"s","o","f","t","w","a","r","e"," ","d","e","v","e","l","o","p","e","r">>, <<"w","e","b"," ","d","e","v","e","l","o","p","e","r">>, <<"m","o","b","i","l","e"," ","d","e","v","e","l","o","p","e","r">>,
    <<"f","u","l","l"," ","s","t","a","c","k"," ","d","e","v","e","l","o","p","e","r">>, <<"f","r","o","n","t","e","n","d"," ","d","e","v","e","l","o","p","e","r">>, <<"b","a","c","k","e","n","d"," ","d","e","v","e","l","o","p","e","r">>, <<"d","e","v","o","p","s"," ","e","n","g","i","n","e","e","r">>,
    <<"c","l","o","u","d"," ","e","n","g","i","n","e","e","r">>, <<"s","y","s","t","e","m"," ","e","n","g","i","n","e","e","r">>, <<"d","a","t","a"," ","s","c","i","e","n","t","i","s","t">>, <<"d","a","t","a"," ","a","n","a","l","y","s","t">>,
    <<"d","a","t","a"," ","e","n","g","i","n","e","e","r">>, <<"m","a","c","h","i","n","e"," ","l","e","a","r","n","i","n","g"," ","e","n","g","i","n","e","e","r">>, <<"a","i"," ","e","n","g","i","n","e","e","r">>, <<"p","r","o","d","u","c","t"," ","m","a","n","a","g","e","r">>,
    <<"t","e","c","h","n","i","c","a","l"," ","p","r","o","d","u","c","t"," ","m","a","n","a","g","e","r">>, <<"s","c","r","u","m"," ","m","a","s","t","e","r">>, <<"a","g","i","l","e"," ","c","o","a","c","h">>, <<"u","i"," ","d","e","s","i","g","n","e","r">>,
    <<"u","x"," ","d","e","s","i","g","n","e","r">>, <<"p","r","o","d","u","c","t"," ","d","e","s","i","g","n","e","r">>, <<"g","r","a","p","h","i","c"," ","d","e","s","i","g","n","e","r">>, <<"w","e","b"," ","d","e","s","i","g","n","e","r">>,
    <<"s","y","s","t","e","m"," ","a","d","m","i","n","i","s","t","r","a","t","o","r">>, <<"d","a","t","a","b","a","s","e"," ","a","d","m","i","n","i","s","t","r","a","t","o","r">>, <<"n","e","t","w","o","r","k"," ","a","d","m","i","n","i","s","t","r","a","t","o","r">>, <<"s","e","c","u","r","i","t","y"," ","e","n","g","i","n","e","e","r">>,
    <<"c","y","b","e","r","s","e","c","u","r","i","t","y"," ","a","n","a","l","y","s","t">>, <<"i","n","f","o","r","m","a","t","i","o","n"," ","s","e","c","u","r","i","t","y">>, <<"t","e","c","h","n","i","c","a","l"," ","w","r","i","t","e","r">>, <<"q","a"," ","e","n","g","i","n","e","e","r">>,
    <<"t","e","s","t"," ","e","n","g","i","n","e","e","r">>, <<"c","h","i","e","f"," ","e","x","e","c","u","t","i","v","e"," ","o","f","f","i","c","e","r">>, <<"c","e","o">>, <<"m","a","n","a","g","i","n","g"," ","d","i","r","e","c","t","o","r">>,
    <<"g","e","n","e","r","a","l"," ","m","a","n","a","g","e","r">>, <<"c","o","u","n","t","r","y"," ","m","a","n","a","g","e","r">>, <<"v","i","c","e"," ","p","r","e","s","i","d","e","n","t">>, <<"v","p">>,
    <<"d","i","r","e","c","t","o","r">>, <<"s","e","n","i","o","r"," ","d","i","r","e","c","t","o","r">>, <<"a","s","s","o","c","i","a","t","e"," ","d","i","r","e","c","t","o","r">>, <<"d","e","p","a","r","t","m","e","n","t"," ","h","e","a","d">>,
    <<"t","e","a","m"," ","l","e","a","d">>, <<"t","e","a","m"," ","l","e","a","d","e","r">>, <<"p","r","o","j","e","c","t"," ","m","a","n","a","g","e","r">>, <<"p","r","o","g","r","a","m"," ","m","a","n","a","g","e","r">>,
    <<"o","p","e","r","a","t","i","o","n","s"," ","m","a","n","a","g","e","r">>, <<"b","u","s","i","n","e","s","s"," ","m","a","n","a","g","e","r">>, <<"r","e","l","a","t","i","o","n","s","h","i","p"," ","m","a","n","a","g","e","r">>, <<"a","c","c","o","u","n","t"," ","m","a","n","a","g","e","r">>,
    <<"f","i","n","a","n","c","i","a","l"," ","a","n","a","l","y","s","t">>, <<"i","n","v","e","s","t","m","e","n","t"," ","a","n","a","l","y","s","t">>, <<"c","r","e","d","i","t"," ","a","n","a","l","y","s","t">>, <<"r","i","s","k"," ","a","n","a","l","y","s","t">>,
    <<"b","u","s","i","n","e","s","s"," ","a","n","a","l","y","s","t">>, <<"f","i","n","a","n","c","i","a","l"," ","a","d","v","i","s","o","r">>, <<"w","e","a","l","t","h"," ","m","a","n","a","g","e","r">>, <<"p","o","r","t","f","o","l","i","o"," ","m","a","n","a","g","e","r">>,
    <<"f","u","n","d"," ","m","a","n","a","g","e","r">>, <<"a","c","c","o","u","n","t","a","n","t">>, <<"s","e","n","i","o","r"," ","a","c","c","o","u","n","t","a","n","t">>, <<"a","c","c","o","u","n","t","i","n","g"," ","m","a","n","a","g","e","r">>,
    <<"f","i","n","a","n","c","e"," ","m","a","n","a","g","e","r">>, <<"c","f","o">>, <<"a","u","d","i","t","o","r">>, <<"i","n","t","e","r","n","a","l"," ","a","u","d","i","t","o","r">>,
    <<"e","x","t","e","r","n","a","l"," ","a","u","d","i","t","o","r">>, <<"c","o","m","p","l","i","a","n","c","e"," ","o","f","f","i","c","e","r">>, <<"r","i","s","k"," ","m","a","n","a","g","e","r">>, <<"t","r","e","a","s","u","r","y"," ","a","n","a","l","y","s","t">>,
    <<"b","u","d","g","e","t"," ","a","n","a","l","y","s","t">>, <<"c","o","s","t"," ","a","n","a","l","y","s","t">>, <<"t","a","x"," ","s","p","e","c","i","a","l","i","s","t">>, <<"s","a","l","e","s"," ","m","a","n","a","g","e","r">>,
    <<"s","a","l","e","s"," ","d","i","r","e","c","t","o","r">>, <<"s","a","l","e","s"," ","r","e","p","r","e","s","e","n","t","a","t","i","v","e">>, <<"a","c","c","o","u","n","t"," ","e","x","e","c","u","t","i","v","e">>, <<"b","u","s","i","n","e","s","s"," ","d","e","v","e","l","o","p","m","e","n","t"," ","m","a","n","a","g","e","r">>,
    <<"b","u","s","i","n","e","s","s"," ","d","e","v","e","l","o","p","m","e","n","t">>, <<"p","a","r","t","n","e","r","s","h","i","p"," ","m","a","n","a","g","e","r">>, <<"m","a","r","k","e","t","i","n","g"," ","m","a","n","a","g","e","r">>, <<"d","i","g","i","t","a","l"," ","m","a","r","k","e","t","i","n","g"," ","m","a","n","a","g","e","r">>,
    <<"b","r","a","n","d"," ","m","a","n","a","g","e","r">>, <<"p","r","o","d","u","c","t"," ","m","a","r","k","e","t","i","n","g">>, <<"m","a","r","k","e","t","i","n","g"," ","d","i","r","e","c","t","o","r">>, <<"c","o","m","m","u","n","i","c","a","t","i","o","n","s"," ","m","a","n","a","g","e","r">>,
    <<"p","u","b","l","i","c"," ","r","e","l","a","t","i","o","n","s">>, <<"c","o","n","t","e","n","t"," ","m","a","n","a","g","e","r">>, <<"s","o","c","i","a","l"," ","m","e","d","i","a"," ","m","a","n","a","g","e","r">>, <<"s","e","o"," ","s","p","e","c","i","a","l","i","s","t">>,
    <<"d","i","g","i","t","a","l"," ","m","a","r","k","e","t","i","n","g"," ","s","p","e","c","i","a","l","i","s","t">>, <<"h","r"," ","m","a","n","a","g","e","r">>, <<"h","u","m","a","n"," ","r","e","s","o","u","r","c","e","s"," ","m","a","n","a","g","e","r">>, <<"h","r"," ","d","i","r","e","c","t","o","r">>,
    <<"h","r"," ","b","u","s","i","n","e","s","s"," ","p","a","r","t","n","e","r">>, <<"r","e","c","r","u","i","t","e","r">>, <<"s","e","n","i","o","r"," ","r","e","c","r","u","i","t","e","r">>, <<"t","a","l","e","n","t"," ","a","c","q","u","i","s","i","t","i","o","n">>,
    <<"r","e","c","r","u","i","t","m","e","n","t"," ","c","o","n","s","u","l","t","a","n","t">>, <<"h","r"," ","g","e","n","e","r","a","l","i","s","t">>, <<"h","r"," ","s","p","e","c","i","a","l","i","s","t">>, <<"c","o","m","p","e","n","s","a","t","i","o","n"," ","a","n","a","l","y","s","t">>,
    <<"b","e","n","e","f","i","t","s"," ","a","d","m","i","n","i","s","t","r","a","t","o","r">>, <<"l","e","a","r","n","i","n","g"," ","a","n","d"," ","d","e","v","e","l","o","p","m","e","n","t">>, <<"t","r","a","i","n","i","n","g"," ","m","a","n","a","g","e","r">>, <<"o","r","g","a","n","i","z","a","t","i","o","n","a","l"," ","d","e","v","e","l","o","p","m","e","n","t">>,
    <<"o","p","e","r","a","t","i","o","n","s"," ","m","a","n","a","g","e","r">>, <<"o","p","e","r","a","t","i","o","n","s"," ","d","i","r","e","c","t","o","r">>, <<"s","u","p","p","l","y"," ","c","h","a","i","n"," ","m","a","n","a","g","e","r">>, <<"l","o","g","i","s","t","i","c","s"," ","m","a","n","a","g","e","r">>,
    <<"w","a","r","e","h","o","u","s","e"," ","m","a","n","a","g","e","r">>, <<"p","r","o","d","u","c","t","i","o","n"," ","m","a","n","a","g","e","r">>, <<"m","a","n","u","f","a","c","t","u","r","i","n","g"," ","m","a","n","a","g","e","r">>, <<"p","l","a","n","t"," ","m","a","n","a","g","e","r">>,
    <<"q","u","a","l","i","t","y"," ","m","a","n","a","g","e","r">>, <<"q","u","a","l","i","t","y"," ","a","s","s","u","r","a","n","c","e">>, <<"q","u","a","l","i","t","y"," ","c","o","n","t","r","o","l">>, <<"p","r","o","c","e","s","s"," ","e","n","g","i","n","e","e","r">>,
    <<"i","n","d","u","s","t","r","i","a","l"," ","e","n","g","i","n","e","e","r">>, <<"m","a","n","u","f","a","c","t","u","r","i","n","g"," ","e","n","g","i","n","e","e","r">>, <<"p","r","o","d","u","c","t","i","o","n"," ","s","u","p","e","r","v","i","s","o","r">>, <<"c","o","n","s","u","l","t","a","n","t">>,
    <<"s","e","n","i","o","r"," ","c","o","n","s","u","l","t","a","n","t">>, <<"p","r","i","n","c","i","p","a","l"," ","c","o","n","s","u","l","t","a","n","t">>, <<"m","a","n","a","g","e","m","e","n","t"," ","c","o","n","s","u","l","t","a","n","t">>, <<"s","t","r","a","t","e","g","y"," ","c","o","n","s","u","l","t","a","n","t">>,
    <<"b","u","s","i","n","e","s","s"," ","c","o","n","s","u","l","t","a","n","t">>, <<"i","t"," ","c","o","n","s","u","l","t","a","n","t">>, <<"f","i","n","a","n","c","i","a","l"," ","c","o","n","s","u","l","t","a","n","t">>, <<"a","d","v","i","s","o","r","y">>,
    <<"a","d","v","i","s","o","r">>, <<"s","e","n","i","o","r"," ","a","d","v","i","s","o","r">>, <<"s","u","b","j","e","c","t"," ","m","a","t","t","e","r"," ","e","x","p","e","r","t">>, <<"s","p","e","c","i","a","l","i","s","t">>,
    <<"d","o","c","t","o","r">>, <<"p","h","y","s","i","c","i","a","n">>, <<"m","e","d","i","c","a","l"," ","d","o","c","t","o","r">>, <<"s","u","r","g","e","o","n">>,
    <<"s","p","e","c","i","a","l","i","s","t"," ","d","o","c","t","o","r">>, <<"n","u","r","s","e">>, <<"r","e","g","i","s","t","e","r","e","d"," ","n","u","r","s","e">>, <<"s","e","n","i","o","r"," ","n","u","r","s","e">>,
    <<"n","u","r","s","e"," ","m","a","n","a","g","e","r">>, <<"n","u","r","s","i","n","g"," ","s","u","p","e","r","v","i","s","o","r">>, <<"p","h","a","r","m","a","c","i","s","t">>, <<"c","l","i","n","i","c","a","l"," ","p","h","a","r","m","a","c","i","s","t">>,
    <<"h","o","s","p","i","t","a","l"," ","p","h","a","r","m","a","c","i","s","t">>, <<"m","e","d","i","c","a","l"," ","t","e","c","h","n","i","c","i","a","n">>, <<"r","a","d","i","o","l","o","g","i","s","t">>, <<"p","a","t","h","o","l","o","g","i","s","t">>,
    <<"a","n","e","s","t","h","e","s","i","o","l","o","g","i","s","t">>, <<"c","a","r","d","i","o","l","o","g","i","s","t">>, <<"n","e","u","r","o","l","o","g","i","s","t">>, <<"p","h","y","s","i","c","a","l"," ","t","h","e","r","a","p","i","s","t">>,
    <<"o","c","c","u","p","a","t","i","o","n","a","l"," ","t","h","e","r","a","p","i","s","t">>, <<"m","e","d","i","c","a","l"," ","a","s","s","i","s","t","a","n","t">>, <<"t","e","a","c","h","e","r">>, <<"s","e","n","i","o","r"," ","t","e","a","c","h","e","r">>,
    <<"p","r","i","n","c","i","p","a","l">>, <<"v","i","c","e"," ","p","r","i","n","c","i","p","a","l">>, <<"h","e","a","d"," ","o","f"," ","d","e","p","a","r","t","m","e","n","t">>, <<"p","r","o","f","e","s","s","o","r">>,
    <<"a","s","s","o","c","i","a","t","e"," ","p","r","o","f","e","s","s","o","r">>, <<"a","s","s","i","s","t","a","n","t"," ","p","r","o","f","e","s","s","o","r">>, <<"l","e","c","t","u","r","e","r">>, <<"i","n","s","t","r","u","c","t","o","r">>,
    <<"t","r","a","i","n","e","r">>, <<"c","o","r","p","o","r","a","t","e"," ","t","r","a","i","n","e","r">>, <<"t","r","a","i","n","i","n","g"," ","s","p","e","c","i","a","l","i","s","t">>, <<"c","u","r","r","i","c","u","l","u","m"," ","d","e","v","e","l","o","p","e","r">>,
    <<"e","d","u","c","a","t","i","o","n"," ","c","o","n","s","u","l","t","a","n","t">>, <<"a","c","a","d","e","m","i","c"," ","a","d","v","i","s","o","r">>, <<"s","t","u","d","e","n","t"," ","c","o","u","n","s","e","l","o","r">>, <<"l","i","b","r","a","r","i","a","n">>,
    <<"l","a","w","y","e","r">>, <<"s","e","n","i","o","r"," ","l","a","w","y","e","r">>, <<"l","e","g","a","l"," ","c","o","u","n","s","e","l">>, <<"g","e","n","e","r","a","l"," ","c","o","u","n","s","e","l">>,
    <<"l","e","g","a","l"," ","a","d","v","i","s","o","r">>, <<"p","a","r","a","l","e","g","a","l">>, <<"l","e","g","a","l"," ","a","s","s","i","s","t","a","n","t">>, <<"c","o","m","p","l","i","a","n","c","e"," ","o","f","f","i","c","e","r">>,
    <<"r","e","g","u","l","a","t","o","r","y"," ","a","f","f","a","i","r","s">>, <<"c","o","n","t","r","a","c","t"," ","m","a","n","a","g","e","r">>, <<"l","e","g","a","l"," ","m","a","n","a","g","e","r">>, <<"l","i","t","i","g","a","t","i","o","n"," ","l","a","w","y","e","r">>,
    <<"c","o","r","p","o","r","a","t","e"," ","l","a","w","y","e","r">>, <<"e","x","e","c","u","t","i","v","e"," ","a","s","s","i","s","t","a","n","t">>, <<"a","d","m","i","n","i","s","t","r","a","t","i","v","e"," ","a","s","s","i","s","t","a","n","t">>, <<"p","e","r","s","o","n","a","l"," ","a","s","s","i","s","t","a","n","t">>,
    <<"s","e","c","r","e","t","a","r","y">>, <<"o","f","f","i","c","e"," ","m","a","n","a","g","e","r">>, <<"a","d","m","i","n","i","s","t","r","a","t","i","v","e"," ","c","o","o","r","d","i","n","a","t","o","r">>, <<"d","a","t","a"," ","e","n","t","r","y">>,
    <<"c","l","e","r","k">>, <<"r","e","c","e","p","t","i","o","n","i","s","t">>, <<"c","u","s","t","o","m","e","r"," ","s","e","r","v","i","c","e"," ","r","e","p","r","e","s","e","n","t","a","t","i","v","e">>, <<"c","a","l","l"," ","c","e","n","t","e","r"," ","a","g","e","n","t">>,
    <<"h","e","l","p"," ","d","e","s","k">>, <<"t","e","c","h","n","i","c","a","l"," ","s","u","p","p","o","r","t">>, <<"c","u","s","t","o","m","e","r"," ","s","u","p","p","o","r","t"," ","s","p","e","c","i","a","l","i","s","t">>, <<"c","r","e","a","t","i","v","e"," ","d","i","r","e","c","t","o","r">>,
    <<"a","r","t"," ","d","i","r","e","c","t","o","r">>, <<"g","r","a","p","h","i","c"," ","d","e","s","i","g","n","e","r">>, <<"v","i","s","u","a","l"," ","d","e","s","i","g","n","e","r">>, <<"m","u","l","t","i","m","e","d","i","a"," ","d","e","s","i","g","n","e","r">>,
    <<"v","i","d","e","o"," ","e","d","i","t","o","r">>, <<"p","h","o","t","o","g","r","a","p","h","e","r">>, <<"v","i","d","e","o","g","r","a","p","h","e","r">>, <<"c","o","p","y","w","r","i","t","e","r">>,
    <<"c","o","n","t","e","n","t"," ","w","r","i","t","e","r">>, <<"t","e","c","h","n","i","c","a","l"," ","w","r","i","t","e","r">>, <<"e","d","i","t","o","r">>, <<"p","r","o","o","f","r","e","a","d","e","r">>,
    <<"a","n","i","m","a","t","o","r">>, <<"i","l","l","u","s","t","r","a","t","o","r">>, <<"g","a","m","e"," ","d","e","s","i","g","n","e","r">>, <<"3","d"," ","a","r","t","i","s","t">>,
    <<"m","e","c","h","a","n","i","c","a","l"," ","e","n","g","i","n","e","e","r">>, <<"e","l","e","c","t","r","i","c","a","l"," ","e","n","g","i","n","e","e","r">>, <<"c","i","v","i","l"," ","e","n","g","i","n","e","e","r">>, <<"c","h","e","m","i","c","a","l"," ","e","n","g","i","n","e","e","r">>,
    <<"b","i","o","m","e","d","i","c","a","l"," ","e","n","g","i","n","e","e","r">>, <<"a","e","r","o","s","p","a","c","e"," ","e","n","g","i","n","e","e","r">>, <<"e","n","v","i","r","o","n","m","e","n","t","a","l"," ","e","n","g","i","n","e","e","r">>, <<"s","t","r","u","c","t","u","r","a","l"," ","e","n","g","i","n","e","e","r">>,
    <<"d","e","s","i","g","n"," ","e","n","g","i","n","e","e","r">>, <<"p","r","o","j","e","c","t"," ","e","n","g","i","n","e","e","r">>, <<"s","i","t","e"," ","e","n","g","i","n","e","e","r">>, <<"t","e","c","h","n","i","c","i","a","n">>,
    <<"s","e","n","i","o","r"," ","t","e","c","h","n","i","c","i","a","n">>, <<"e","n","g","i","n","e","e","r","i","n","g"," ","t","e","c","h","n","i","c","i","a","n">>, <<"l","a","b"," ","t","e","c","h","n","i","c","i","a","n">>, <<"m","a","i","n","t","e","n","a","n","c","e"," ","t","e","c","h","n","i","c","i","a","n">>,
    <<"f","i","e","l","d"," ","t","e","c","h","n","i","c","i","a","n">>, <<"s","e","r","v","i","c","e"," ","t","e","c","h","n","i","c","i","a","n">> >>

\* The entries of the vocabulary found in the text, in list order; an entry
\* listed twice is found twice.
_extract_industry_keywords(text) ==
  LET lowered == Lower(text)
  IN  SelectSeq(industry_keywords, LAMBDA keyword : IsSubstr(keyword, lowered))

\* sorted(job_keywords, key=len, reverse=True): stable, longest first.
RECURSIVE SortedByLenFrom(_, _)
SortedByLenFrom(list, n) ==
  IF n = 0 THEN << >>
  ELSE SelectSeq(list, LAMBDA k : Len(k) = n) \o SortedByLenFrom(list, n - 1)

MaxLenOf(list) == CHOOSE n \in { Len(list[i]) : i \in 1..Len(list) } :
                    \A i \in 1..Len(list) : Len(list[i]) <= n

sorted_keywords == SortedByLenFrom(job_keywords, MaxLenOf(job_keywords))

\* The n-th smallest member of a set of numbers.
NthOf(kept, n) == CHOOSE i \in kept : Cardinality({ j \in kept : j <= i }) = n

\* The entries of list at the positions kept, in list order.
AtPositions(list, kept) == [ n \in 1..Cardinality(kept) |-> list[NthOf(kept, n)] ]

\* The loop `if keyword in text_lower and keyword not in found_keywords`:
\* an entry is appended when it is in the text and no equal entry came
\* earlier in the list; the appended entries keep the list's order.
FoundKeywords(list, text_lower) ==
  AtPositions(list, { i \in 1..Len(list) :
                        /\ IsSubstr(list[i], text_lower)
                        /\ \A j \in 1..(i - 1) : list[j] # list[i] })

_extract_job_keywords(text) == FoundKeywords(sorted_keywords, Lower(text))

\* keyword[:max(4, len(keyword)-2)]
KeywordRoot(keyword) == Prefix(keyword, Max(4, Len(keyword) - 2))

\* A keyword that is not in the target but whose root of 4 or more characters is.
PartialKeyword(keyword, target_lower) ==
  /\ ~ IsSubstr(keyword, target_lower)
  /\ Len(KeywordRoot(keyword)) >= 4
  /\ IsSubstr(KeywordRoot(keyword), target_lower)

\* The body of _calculate_enhanced_keyword_score for a non-empty list.
KeywordScoreOf(keywords, target_lower) ==
  Min(((Cardinality({ i \in 1..Len(keywords) : IsSubstr(keywords[i], target_lower) }) * 10
        + Cardinality({ i \in 1..Len(keywords) : PartialKeyword(keywords[i], target_lower) }) * 7)
       * (SCALE \div 10)) \div Len(keywords),
      SCALE)

_calculate_enhanced_keyword_score(keywords, target_text) ==
  IF keywords = << >> THEN 0 ELSE KeywordScoreOf(keywords, Lower(target_text))

-----------------------------------------------------------------------------
(* Candidate scorer *)

industry_patterns == <<
  [industry |-> <<"t","e","c","h","n","o","l","o","g","y">>,    patterns |-> <<<<"t","e","c","h">>, <<"s","o","f","t","w","a","r","e">>, <<"s","y","s","t","e","m","s">>, <<"s","o","l","u","t","i","o","n","s">>, <<"d","i","g","i","t","a","l">>, <<"c","y","b","e","r">>, <<"d","a","t","a">>, <<"a","i">>, <<"c","l","o","u","d">>>>],
  [industry |-> <<"c","o","n","s","u","l","t","i","n","g">>,    patterns |-> <<<<"c","o","n","s","u","l","t","i","n","g">>, <<"a","d","v","i","s","o","r","y">>, <<"p","r","o","f","e","s","s","i","o","n","a","l"," ","s","e","r","v","i","c","e","s">>, <<"m","a","n","a","g","e","m","e","n","t">>>>],
  [industry |-> <<"f","i","n","a","n","c","i","a","l">>,     patterns |-> <<<<"b","a","n","k">>, <<"f","i","n","a","n","c","e">>, <<"c","a","p","i","t","a","l">>, <<"i","n","v","e","s","t","m","e","n","t">>, <<"w","e","a","l","t","h">>, <<"i","n","s","u","r","a","n","c","e">>>>],
  [industry |-> <<"h","e","a","l","t","h","c","a","r","e">>,    patterns |-> <<<<"h","e","a","l","t","h">>, <<"m","e","d","i","c","a","l">>, <<"c","l","i","n","i","c">>, <<"h","o","s","p","i","t","a","l">>, <<"p","h","a","r","m","a">>, <<"b","i","o">>>>],
  [industry |-> <<"e","d","u","c","a","t","i","o","n">>,     patterns |-> <<<<"e","d","u","c","a","t","i","o","n">>, <<"s","c","h","o","o","l">>, <<"u","n","i","v","e","r","s","i","t","y">>, <<"i","n","s","t","i","t","u","t","e">>, <<"a","c","a","d","e","m","y">>>>],
  [industry |-> <<"m","a","n","u","f","a","c","t","u","r","i","n","g">>, patterns |-> <<<<"m","a","n","u","f","a","c","t","u","r","i","n","g">>, <<"p","r","o","d","u","c","t","i","o","n">>, <<"i","n","d","u","s","t","r","i","a","l">>, <<"f","a","c","t","o","r","y">>, <<"e","n","g","i","n","e","e","r","i","n","g">>>>],
  [industry |-> <<"r","e","t","a","i","l">>,        patterns |-> <<<<"r","e","t","a","i","l">>, <<"s","t","o","r","e">>, <<"s","h","o","p">>, <<"m","a","r","t">>, <<"s","u","p","e","r","m","a","r","k","e","t">>, <<"m","a","l","l">>>>],
  [industry |-> <<"l","o","g","i","s","t","i","c","s">>,     patterns |-> <<<<"l","o","g","i","s","t","i","c","s">>, <<"t","r","a","n","s","p","o","r","t">>, <<"s","h","i","p","p","i","n","g">>, <<"d","e","l","i","v","e","r","y">>, <<"s","u","p","p","l","y">>, <<"w","a","r","e","h","o","u","s","e">>>>],
  [industry |-> <<"c","o","n","s","t","r","u","c","t","i","o","n">>,  patterns |-> <<<<"c","o","n","s","t","r","u","c","t","i","o","n">>, <<"b","u","i","l","d","i","n","g">>, <<"p","r","o","p","e","r","t","y">>, <<"r","e","a","l"," ","e","s","t","a","t","e">>, <<"d","e","v","e","l","o","p","m","e","n","t">>>>],
  [industry |-> <<"g","o","v","e","r","n","m","e","n","t">>,    patterns |-> <<<<"g","o","v","e","r","n","m","e","n","t">>, <<"m","i","n","i","s","t","r","y">>, <<"a","u","t","h","o","r","i","t","y">>, <<"a","g","e","n","c","y">>, <<"p","u","b","l","i","c">>, <<"s","t","a","t","u","t","o","r","y">>>>] >>

\* any(pattern in text for pattern in patterns)
AnyIn(patterns, text) == \E i \in 1..Len(patterns) : IsSubstr(patterns[i], text)

\* What one entry of industry_patterns adds: 0.8, 0.5 or nothing (in tenths).
PatternScore(entry, company_name, ssic_title) ==
  IF ~ AnyIn(entry.patterns, company_name) THEN 0
  ELSE IF IsSubstr(entry.industry, ssic_title) THEN 8
  ELSE IF AnyIn(entry.patterns, ssic_title) THEN 5
  ELSE 0

\* The sum of PatternScore over the entries from the i-th on.
RECURSIVE PatternSum(_, _, _)
PatternSum(i, company_name, ssic_title) ==
  IF i > Len(industry_patterns) THEN 0
  ELSE PatternScore(industry_patterns[i], company_name, ssic_title)
       + PatternSum(i + 1, company_name, ssic_title)

_calculate_company_industry_score(company_name, ssic_title) ==
  Min(PatternSum(1, company_name, ssic_title) * (SCALE \div 10), SCALE)

\* job_synonyms.get(word, []) of _calculate_enhanced_job_match
job_synonyms == <<
  [key |-> <<"s","o","f","t","w","a","r","e"," ","e","n","g","i","n","e","e","r">>,  synonyms |-> {<<"s","o","f","t","w","a","r","e"," ","d","e","v","e","l","o","p","e","r">>, <<"p","r","o","g","r","a","m","m","e","r">>, <<"a","p","p","l","i","c","a","t","i","o","n"," ","d","e","v","e","l","o","p","e","r">>, <<"s","y","s","t","e","m","s"," ","d","e","v","e","l","o","p","e","r">>}],
  [key |-> <<"s","o","f","t","w","a","r","e"," ","d","e","v","e","l","o","p","e","r">>, synonyms |-> {<<"s","o","f","t","w","a","r","e"," ","e","n","g","i","n","e","e","r">>, <<"p","r","o","g","r","a","m","m","e","r">>, <<"a","p","p","l","i","c","a","t","i","o","n"," ","d","e","v","e","l","o","p","e","r">>, <<"w","e","b"," ","d","e","v","e","l","o","p","e","r">>}],
  [key |-> <<"d","a","t","a"," ","s","c","i","e","n","t","i","s","t">>,     synonyms |-> {<<"d","a","t","a"," ","a","n","a","l","y","s","t">>, <<"d","a","t","a"," ","e","n","g","i","n","e","e","r">>, <<"b","u","s","i","n","e","s","s"," ","a","n","a","l","y","s","t">>, <<"r","e","s","e","a","r","c","h"," ","s","c","i","e","n","t","i","s","t">>}],
  [key |-> <<"d","a","t","a"," ","a","n","a","l","y","s","t">>,       synonyms |-> {<<"b","u","s","i","n","e","s","s"," ","a","n","a","l","y","s","t">>, <<"d","a","t","a"," ","s","c","i","e","n","t","i","s","t">>, <<"r","e","s","e","a","r","c","h"," ","a","n","a","l","y","s","t">>, <<"i","n","t","e","l","l","i","g","e","n","c","e"," ","a","n","a","l","y","s","t">>}],
  [key |-> <<"m","a","n","a","g","e","r">>,            synonyms |-> {<<"s","u","p","e","r","v","i","s","o","r">>, <<"h","e","a","d">>, <<"d","i","r","e","c","t","o","r">>, <<"l","e","a","d">>, <<"t","e","a","m"," ","l","e","a","d">>, <<"s","e","n","i","o","r"," ","m","a","n","a","g","e","r">>}],
  [key |-> <<"s","e","n","i","o","r"," ","m","a","n","a","g","e","r">>,     synonyms |-> {<<"d","i","r","e","c","t","o","r">>, <<"h","e","a","d">>, <<"m","a","n","a","g","e","r">>, <<"s","u","p","e","r","v","i","s","o","r">>, <<"t","e","a","m"," ","l","e","a","d">>}],
  [key |-> <<"a","n","a","l","y","s","t">>,            synonyms |-> {<<"s","p","e","c","i","a","l","i","s","t">>, <<"c","o","n","s","u","l","t","a","n","t">>, <<"a","s","s","o","c","i","a","t","e">>, <<"r","e","s","e","a","r","c","h","e","r">>}],
  [key |-> <<"s","p","e","c","i","a","l","i","s","t">>,         synonyms |-> {<<"e","x","p","e","r","t">>, <<"c","o","n","s","u","l","t","a","n","t">>, <<"a","n","a","l","y","s","t">>, <<"a","d","v","i","s","o","r">>}],
  [key |-> <<"e","x","e","c","u","t","i","v","e">>,          synonyms |-> {<<"o","f","f","i","c","e","r">>, <<"c","o","o","r","d","i","n","a","t","o","r">>, <<"a","d","m","i","n","i","s","t","r","a","t","o","r">>, <<"m","a","n","a","g","e","r">>}],
  [key |-> <<"a","s","s","i","s","t","a","n","t">>,          synonyms |-> {<<"a","s","s","o","c","i","a","t","e">>, <<"s","u","p","p","o","r","t">>, <<"c","o","o","r","d","i","n","a","t","o","r">>, <<"h","e","l","p","e","r">>}],
  [key |-> <<"d","e","s","i","g","n","e","r">>,           synonyms |-> {<<"c","r","e","a","t","i","v","e">>, <<"a","r","t","i","s","t">>, <<"s","t","y","l","i","s","t">>, <<"d","e","v","e","l","o","p","e","r">>}],
  [key |-> <<"a","c","c","o","u","n","t","a","n","t">>,         synonyms |-> {<<"f","i","n","a","n","c","i","a","l"," ","a","n","a","l","y","s","t">>, <<"b","o","o","k","k","e","e","p","e","r">>, <<"f","i","n","a","n","c","e"," ","o","f","f","i","c","e","r">>, <<"a","u","d","i","t","o","r">>}],
  [key |-> <<"t","e","a","c","h","e","r">>,            synonyms |-> {<<"e","d","u","c","a","t","o","r">>, <<"i","n","s","t","r","u","c","t","o","r">>, <<"t","r","a","i","n","e","r">>, <<"l","e","c","t","u","r","e","r">>, <<"p","r","o","f","e","s","s","o","r">>}],
  [key |-> <<"e","n","g","i","n","e","e","r">>,           synonyms |-> {<<"t","e","c","h","n","i","c","i","a","n">>, <<"s","p","e","c","i","a","l","i","s","t">>, <<"d","e","v","e","l","o","p","e","r">>, <<"a","r","c","h","i","t","e","c","t">>}],
  [key |-> <<"d","e","v","e","l","o","p","e","r">>,          synonyms |-> {<<"e","n","g","i","n","e","e","r">>, <<"p","r","o","g","r","a","m","m","e","r">>, <<"b","u","i","l","d","e","r">>, <<"c","r","e","a","t","o","r">>}],
  [key |-> <<"c","o","n","s","u","l","t","a","n","t">>,         synonyms |-> {<<"a","d","v","i","s","o","r">>, <<"s","p","e","c","i","a","l","i","s","t">>, <<"e","x","p","e","r","t">>, <<"c","o","u","n","s","e","l","o","r">>}],
  [key |-> <<"c","o","o","r","d","i","n","a","t","o","r">>,        synonyms |-> {<<"o","r","g","a","n","i","z","e","r">>, <<"a","d","m","i","n","i","s","t","r","a","t","o","r">>, <<"m","a","n","a","g","e","r">>, <<"s","u","p","e","r","v","i","s","o","r">>}],
  [key |-> <<"t","e","c","h","n","i","c","i","a","n">>,         synonyms |-> {<<"s","p","e","c","i","a","l","i","s","t">>, <<"e","n","g","i","n","e","e","r">>, <<"m","e","c","h","a","n","i","c">>, <<"o","p","e","r","a","t","o","r">>}] >>

\* job_synonyms.get(word, []): the synonyms of the entries keyed by the word.
JobSynonymsOf(word) ==
  UNION { e.synonyms : e \in { x \in Range(job_synonyms) : x.key = word } }

seniority_levels == <<<<"j","u","n","i","o","r">>, <<"s","e","n","i","o","r">>, <<"l","e","a","d">>, <<"p","r","i","n","c","i","p","a","l">>, <<"c","h","i","e","f">>, <<"h","e","a","d">>>>

\* `job_word in job_synonyms.get(sso_word, []) or sso_word in job_synonyms.get(job_word, [])`
DirectSynonym(job_word, sso_word) ==
  job_word \in JobSynonymsOf(sso_word) \/ sso_word \in JobSynonymsOf(job_word)

\* The elif branch: both words of 4 or more characters, one inside the other.
PartialWord(job_word, sso_word) ==
  /\ Len(job_word) >= 4 /\ Len(sso_word) >= 4
  /\ (IsSubstr(job_word, sso_word) \/ IsSubstr(sso_word, job_word))

\* synonym_boost: 0.4 for a direct synonym pair, else 0.2 for a partial pair (in tenths).
SynonymBoost(job_words, sso_words) ==
  Cardinality({ p \in job_words \X sso_words : DirectSynonym(p[1], p[2]) }) * 4
  + Cardinality({ p \in job_words \X sso_words :
                    ~ DirectSynonym(p[1], p[2]) /\ PartialWord(p[1], p[2]) }) * 2

\* A job match without the seniority boost.
JobMatchOfWordsNoSeniority(job_words, sso_words, job_seniority, sso_seniority) ==
  IF Cardinality(job_words \cup sso_words) = 0 THEN 0
  ELSE Min(Frac(Cardinality(job_words \cap sso_words), Cardinality(job_words \cup sso_words))
           + SynonymBoost(job_words, sso_words) * (SCALE \div 10),
           SCALE)

\* The body of _calculate_enhanced_job_match once the word sets are built.
JobMatchOfWords(job_words, sso_words, job_seniority, sso_seniority) ==
  IF Cardinality(job_words \cup sso_words) = 0 THEN 0
  ELSE Min(Frac(Cardinality(job_words \cap sso_words), Cardinality(job_words \cup sso_words))
           + SynonymBoost(job_words, sso_words) * (SCALE \div 10)
           + (IF job_seniority = sso_seniority THEN SCALE \div 10 ELSE 0),
           SCALE)

_calculate_enhanced_job_match(title, sso_title) ==
  JobMatchOfWords(Words(Lower(title)), Words(Lower(sso_title)),
                  AnyIn(seniority_levels, Lower(title)),
                  AnyIn(seniority_levels, Lower(sso_title)))

-----------------------------------------------------------------------------
(* Two-tier matchers *)

\* The rows of a table whose code has n characters, in table order.
RowsOfLen(df, n) == SelectSeq(df, LAMBDA row : Len(row.code) = n)

\* What a matcher holds before any row scored: empty code, empty title, 0.0.
NoBest == [code |-> << >>, title |-> << >>, score |-> 0]

\* A scan that replaces the best on `combined_score >= best_score`.
RECURSIVE ScanFromLastWins(_, _, _, _)
ScanFromLastWins(rows, scores, i, best) ==
  IF i > Len(rows) THEN best
  ELSE ScanFromLastWins(rows, scores, i + 1,
         IF scores[i] >= best.score
         THEN [code |-> rows[i].code, title |-> rows[i].title, score |-> scores[i]]
         ELSE best)

\* One scan: `if combined_score > best_score`, row after row in table order.
RECURSIVE ScanFrom(_, _, _, _)
ScanFrom(rows, scores, i, best) ==
  IF i > Len(rows) THEN best
  ELSE ScanFrom(rows, scores, i + 1,
         IF scores[i] > best.score
         THEN [code |-> rows[i].code, title |-> rows[i].title, score |-> scores[i]]
         ELSE best)

\* confidence_boost of find_best_ssic_match in the scan of 5-digit rows
\* (tier 5) and in the scan of 4-digit rows (tier 4).
SsicConfidenceBoost(tier, text_score, keyword_score) ==
  IF tier = 5
  THEN (IF text_score > Times(SCALE, 70) \/ keyword_score > Times(SCALE, 80)
        THEN Times(SCALE, 20) ELSE 0)
  ELSE (IF text_score > Times(SCALE, 60) \/ keyword_score > Times(SCALE, 70)
        THEN Times(SCALE, 15) ELSE 0)

\* confidence_boost and the weighted sum of find_best_ssic_match, clamped to
\* 1.0; tier is 5 or 4.
SsicCombined(tier, text_score, keyword_score, company_score) ==
  Min(Times(text_score, 40) + Times(keyword_score, 40) + Times(company_score, 20)
      + SsicConfidenceBoost(tier, text_score, keyword_score),
      SCALE)

\* The combined score of one industry row in find_best_ssic_match.
SsicRowScore(company_arg, search_text, keywords, ssic_title, tier) ==
  SsicCombined(tier,
               enhanced_text_matching(search_text, ssic_title),
               _calculate_enhanced_keyword_score(keywords, ssic_title),
               _calculate_company_industry_score(Lower(company_arg), ssic_title))

\* The scores of the rows of one scan of find_best_ssic_match.
SsicScores(rows, company_arg, search_text, keywords, tier) ==
  [ i \in 1..Len(rows) |->
      SsicRowScore(company_arg, search_text, keywords, Lower(rows[i].title), tier) ]

\* A 20% boost that is applied twice.
FinalBoostSsicTwice(best_score) ==
  IF best_score > Times(SCALE, 50)
  THEN Min(Times(Min(Times(best_score, 120), SCALE), 120), SCALE)
  ELSE best_score

\* A 20% boost that starts at 0.5, not above it.
FinalBoostSsicFromHalf(best_score) ==
  IF best_score >= Times(SCALE, 50) THEN Min(Times(best_score, 120), SCALE) ELSE best_score

\* min(best_score * 1.2, 1.0) when best_score > 0.5
FinalBoostSsic(best_score) ==
  IF best_score > Times(SCALE, 50) THEN Min(Times(best_score, 120), SCALE) ELSE best_score

\* The 25% boost without its clamp.
FinalBoostSsoUnclamped(best_score) ==
  IF best_score > Times(SCALE, 50) THEN Times(best_score, 125) ELSE best_score

\* min(best_score * 1.25, 1.0) when best_score > 0.5
FinalBoostSso(best_score) ==
  IF best_score > Times(SCALE, 50) THEN Min(Times(best_score, 125), SCALE) ELSE best_score

\* `if best_score < 0.4`: the 4-digit scan runs.
ScansFourDigit(best_score) == best_score < Times(SCALE, 40)

\* What a matcher returns: (code, title, score), and beside them exc (an
\* exception left the call), five (the best after the 5-digit scan) and
\* scanned4 (the 4-digit scan ran).
MatchRaised ==
  [exc |-> TRUE, code |-> << >>, title |-> << >>, score |-> 0,
   five |-> NoBest, scanned4 |-> FALSE]

MatchResult(best, final_score, five) ==
  [exc |-> FALSE, code |-> best.code, title |-> best.title, score |-> final_score,
   five |-> five, scanned4 |-> ScansFourDigit(five.score)]

\* The second tier of find_best_ssic_match and its final boost.
SsicSecondTier(five, four_digit_codes, company_arg, search_text, keywords) ==
  IF ScansFourDigit(five.score)
  THEN ScanFrom(four_digit_codes,
                SsicScores(four_digit_codes, company_arg, search_text, keywords, 4), 1, five)
  ELSE five

\* company.lower() runs once a row is scanned, and raises on None.
SsicMatchRaises(df, company_arg) ==
  company_arg = None /\ (RowsOfLen(df, 5) # << >> \/ RowsOfLen(df, 4) # << >>)

\* The 5-digit scan of find_best_ssic_match alone.
SsicFiveScan(df, company_arg, search_text) ==
  ScanFrom(RowsOfLen(df, 5),
           SsicScores(RowsOfLen(df, 5), company_arg, search_text,
                      _extract_industry_keywords(search_text), 5),
           1, NoBest)

\* The search text of find_best_ssic_match.
SsicSearchText(company_arg, description_arg) ==
  Lower(Sp(Str(company_arg), Str(description_arg)))

\* The result of find_best_ssic_match from the best row of the two scans.
SsicBoosted(best, five) == MatchResult(best, FinalBoostSsic(best.score), five)

\* The two scans, from the search text.
SsicFromText(df, company_arg, search_text, keywords, five) ==
  SsicBoosted(SsicSecondTier(five, RowsOfLen(df, 4), company_arg, search_text, keywords),
              five)

find_best_ssic_match(df, company_arg, description_arg) ==
  IF SsicMatchRaises(df, company_arg) THEN MatchRaised
  ELSE SsicFromText(df, company_arg, SsicSearchText(company_arg, description_arg),
                    _extract_industry_keywords(SsicSearchText(company_arg, description_arg)),
                    SsicFiveScan(df, company_arg, SsicSearchText(company_arg, description_arg)))

\* confidence_boost of find_best_sso_match in the scan of 5-digit rows
\* (tier 5) and in the scan of 4-digit rows (tier 4).
SsoConfidenceBoost(tier, title_score, keyword_score, exact_match_score) ==
  IF tier = 5
  THEN (IF title_score > Times(SCALE, 70) \/ exact_match_score > Times(SCALE, 80)
        THEN Times(SCALE, 25)
        ELSE IF keyword_score > Times(SCALE, 70) THEN Times(SCALE, 15) ELSE 0)
  ELSE (IF title_score > Times(SCALE, 60) \/ exact_match_score > Times(SCALE, 70)
        THEN Times(SCALE, 20)
        ELSE IF keyword_score > Times(SCALE, 60) THEN Times(SCALE, 10) ELSE 0)

\* confidence_boost and the weighted sum of find_best_sso_match, clamped to
\* 1.0; tier is 5 or 4.
SsoCombined(tier, title_score, desc_score, keyword_score, exact_match_score) ==
  Min(Times(title_score, 35) + Times(desc_score, 15) + Times(keyword_score, 25)
      + Times(exact_match_score, 25)
      + SsoConfidenceBoost(tier, title_score, keyword_score, exact_match_score),
      SCALE)

\* The combined score of one occupation row in find_best_sso_match.
SsoRowScore(title_arg, description_arg, found, sso_title, tier) ==
  SsoCombined(tier,
              enhanced_text_matching(Lower(title_arg), sso_title),
              enhanced_text_matching(Lower(description_arg), sso_title),
              _calculate_enhanced_keyword_score(found, sso_title),
              _calculate_enhanced_job_match(Lower(title_arg), sso_title))

\* The scores of the rows of one scan of find_best_sso_match.
SsoScores(rows, title_arg, description_arg, found, tier) ==
  [ i \in 1..Len(rows) |->
      SsoRowScore(title_arg, description_arg, found, Lower(rows[i].title), tier) ]

\* job_title.lower() and job_description.lower() run once a row is scanned,
\* and raise on None.
SsoMatchRaises(df, title_arg, description_arg) ==
  /\ title_arg = None \/ description_arg = None
  /\ RowsOfLen(df, 5) # << >> \/ RowsOfLen(df, 4) # << >>

\* The search text of find_best_sso_match.
SsoSearchText(company_arg, title_arg, description_arg) ==
  Lower(Sp(Sp(Str(company_arg), Str(title_arg)), Str(description_arg)))

\* The 5-digit scan of find_best_sso_match.
SsoFiveScan(df, title_arg, description_arg, found) ==
  ScanFrom(RowsOfLen(df, 5),
           SsoScores(RowsOfLen(df, 5), title_arg, description_arg, found, 5),
           1, NoBest)

\* A find_best_sso_match that never scans the 4-digit rows.
SsoSecondTierSkipped(df, five, title_arg, description_arg, found) == five

\* The second tier of find_best_sso_match.
SsoSecondTier(df, five, title_arg, description_arg, found) ==
  IF ScansFourDigit(five.score)
  THEN ScanFrom(RowsOfLen(df, 4),
                SsoScores(RowsOfLen(df, 4), title_arg, description_arg, found, 4),
                1, five)
  ELSE five

\* The result of find_best_sso_match from the best row of the two scans.
SsoBoosted(best, five) == MatchResult(best, FinalBoostSso(best.score), five)

\* The two scans, from the keywords found in the search text.
SsoFromKeywords(df, title_arg, description_arg, found, five) ==
  SsoBoosted(SsoSecondTier(df, five, title_arg, description_arg, found), five)

\* The two scans of find_best_sso_match.
SsoTwoTier(df, title_arg, description_arg, found) ==
  SsoFromKeywords(df, title_arg, description_arg, found,
                  SsoFiveScan(df, title_arg, description_arg, found))

find_best_sso_match(df, company_arg, title_arg, description_arg) ==
  IF SsoMatchRaises(df, title_arg, description_arg) THEN MatchRaised
  ELSE SsoTwoTier(df, title_arg, description_arg,
                  _extract_job_keywords(SsoSearchText(company_arg, title_arg, description_arg)))

-----------------------------------------------------------------------------
(* Cross-taxonomy compatibility *)

\* compatibility_patterns, in source order; score in hundredths.
compatibility_patterns == <<
  [prefix |-> <<"6","2">>,  compatible_sso_prefixes |-> <<<<"2","5","1">>, <<"2","5","2">>, <<"1","2","1">>, <<"1","3","2">>, <<"2","4","2">>>>, score |-> 80],
  [prefix |-> <<"6","4">>,  compatible_sso_prefixes |-> <<<<"2","4","1">>, <<"1","2","1">>, <<"1","2","2">>, <<"1","3","1">>>>, score |-> 80],
  [prefix |-> <<"6","6">>,  compatible_sso_prefixes |-> <<<<"2","4","1">>, <<"1","2","1">>, <<"1","2","2">>, <<"1","3","1">>>>, score |-> 80],
  [prefix |-> <<"8","4","1">>, compatible_sso_prefixes |-> <<<<"1","1","1">>, <<"1","1","2">>, <<"1","2","1">>, <<"2","4","2">>, <<"2","5","1">>>>, score |-> 90],
  [prefix |-> <<"8","6","1">>, compatible_sso_prefixes |-> <<<<"2","2","1">>, <<"2","2","2">>, <<"3","2","1">>, <<"3","2","2">>>>, score |-> 90],
  [prefix |-> <<"1">>,   compatible_sso_prefixes |-> <<<<"2","1","4">>, <<"2","1","5">>, <<"3","1","1">>, <<"3","1","2">>, <<"1","2","1">>>>, score |-> 70],
  [prefix |-> <<"2">>,   compatible_sso_prefixes |-> <<<<"2","1","4">>, <<"2","1","5">>, <<"3","1","1">>, <<"3","1","2">>, <<"1","2","1">>>>, score |-> 70],
  [prefix |-> <<"3">>,   compatible_sso_prefixes |-> <<<<"2","1","4">>, <<"2","1","5">>, <<"3","1","1">>, <<"3","1","2">>, <<"1","2","1">>>>, score |-> 70],
  [prefix |-> <<"7","0">>,  compatible_sso_prefixes |-> <<<<"2","4","2">>, <<"1","2","1">>, <<"1","2","2">>>>, score |-> 80],
  [prefix |-> <<"4","7">>,  compatible_sso_prefixes |-> <<<<"3","3","3">>, <<"3","3","4">>, <<"1","2","1">>, <<"1","3","2">>>>, score |-> 70] >>

\* The entry of compatibility_patterns found for ssic_code[:2] whose list has
\* a prefix that sso_code[:3] starts with.
CompatibleEntries(ssic_prefix, sso_prefix) ==
  { i \in 1..Len(compatibility_patterns) :
      /\ compatibility_patterns[i].prefix = ssic_prefix
      /\ \E j \in 1..Len(compatibility_patterns[i].compatible_sso_prefixes) :
            StartsWith(sso_prefix, compatibility_patterns[i].compatible_sso_prefixes[j]) }

\* A result without the default for the management occupations.
CompatibilityOfNoDefault(hits, ssic_code, sso_code) ==
  IF hits # {}
  THEN Times(SCALE, compatibility_patterns[CHOOSE i \in hits : TRUE].score)
  ELSE IF StartsWith(ssic_code, <<"8","4","1">>)
          /\ (StartsWith(sso_code, <<"1","1">>) \/ StartsWith(sso_code, <<"2","4">>) \/ StartsWith(sso_code, <<"2","5">>))
       THEN Times(SCALE, 90)
  ELSE 0

\* The score of the entry found, else the special cases.
CompatibilityOf(hits, ssic_code, sso_code) ==
  IF hits # {}
  THEN Times(SCALE, compatibility_patterns[CHOOSE i \in hits : TRUE].score)
  ELSE IF StartsWith(ssic_code, <<"8","4","1">>)
          /\ (StartsWith(sso_code, <<"1","1">>) \/ StartsWith(sso_code, <<"2","4">>) \/ StartsWith(sso_code, <<"2","5">>))
       THEN Times(SCALE, 90)
  ELSE IF StartsWith(sso_code, <<"1","1">>) \/ StartsWith(sso_code, <<"1","2">>)
       THEN Times(SCALE, 50)
  ELSE 0

_calculate_ssic_sso_compatibility(ssic_code, sso_code) ==
  IF ssic_code = << >> \/ sso_code = << >> THEN 0
  ELSE CompatibilityOf(CompatibleEntries(Prefix(ssic_code, 2), Prefix(sso_code, 3)),
                       ssic_code, sso_code)

\* confidence_boost and the weighted sum of _find_best_5digit_ssic_match,
\* clamped to 1.0.
Ssic5Combined(text_score, keyword_score, company_score, compatibility_boost) ==
  Min(Times(text_score, 30) + Times(keyword_score, 30) + Times(company_score, 20)
      + Times(compatibility_boost, 20)
      + (IF text_score > Times(SCALE, 70) \/ keyword_score > Times(SCALE, 80)
         THEN Times(SCALE, 20) ELSE 0),
      SCALE)

\* The combined score of one 5-digit industry row in _find_best_5digit_ssic_match.
Ssic5RowScore(search_text, keywords, ssic_title, ssic_code, sso_code) ==
  Ssic5Combined(enhanced_text_matching(search_text, ssic_title),
                _calculate_enhanced_keyword_score(keywords, ssic_title),
                _calculate_company_industry_score(search_text, ssic_title),
                IF Truthy(sso_code)
                THEN _calculate_ssic_sso_compatibility(ssic_code, sso_code) ELSE 0)

\* The scores of the 5-digit rows in _find_best_5digit_ssic_match.
Ssic5Scores(rows, search_text, keywords, sso_code) ==
  [ i \in 1..Len(rows) |->
      Ssic5RowScore(search_text, keywords, Lower(rows[i].title), rows[i].code, sso_code) ]

OtherCode == <<"9","9","9","9","9">>
OtherTitle == <<"O","t","h","e","r"," ","a","c","t","i","v","i","t","i","e","s"," ","n","o","t"," ","e","l","s","e","w","h","e","r","e"," ","s","p","e","c","i","f","i","e","d">>

\* A _find_best_5digit_ssic_match without the `if not best_code` branch.
Ssic5ResultNoSentinel(best) ==
  [code |-> best.code, title |-> best.title, score |-> FinalBoostSsic(best.score)]

\* `if not best_code: return "99999", ..., 0.2`, else the final boost.
Ssic5Result(best) ==
  IF best.code = << >>
  THEN [code |-> OtherCode, title |-> OtherTitle, score |-> Times(SCALE, 20)]
  ELSE [code |-> best.code, title |-> best.title, score |-> FinalBoostSsic(best.score)]

\* The scan of _find_best_5digit_ssic_match, from the search text.
Ssic5FromText(df, search_text, sso_code) ==
  Ssic5Result(ScanFrom(RowsOfLen(df, 5),
                       Ssic5Scores(RowsOfLen(df, 5), search_text,
                                   _extract_industry_keywords(search_text), sso_code),
                       1, NoBest))

\* _find_best_5digit_ssic_match; it raises nothing.
_find_best_5digit_ssic_match(df, company_arg, description_arg, sso_code) ==
  Ssic5FromText(df, Lower(Sp(Str(company_arg), Str(description_arg))), sso_code)

-----------------------------------------------------------------------------
(* AI-assisted classifier.  An LLM call either fails (the client cannot be  *)
(* built, the call raises, the message has no content) or returns a text.   *)

LLMFail == [ok |-> FALSE, content |-> << >>]
LLMReply(text) == [ok |-> TRUE, content |-> text]

\* The fallback sentence of generate_company_description.
FallbackDescription(company_name) ==
  Str(company_name) \o <<" ","i","s"," ","a"," ","c","o","m","p","a","n","y"," ","o","p","e","r","a","t","i","n","g"," ","i","n"," ","t","h","e"," ","b","u","s","i","n","e","s","s"," ","s","e","c","t","o","r"," ","r","e","l","a","t","e","d"," ","t","o"," ","i","t","s"," ","c","o","r","e"," ","a","c","t","i","v","i","t","i","e","s"," ","a","n","d"," ","s","e","r","v","i","c","e","s",".">>

\* f"Business operations related to {company}"
DefaultDescription(company_name) ==
  <<"B","u","s","i","n","e","s","s"," ","o","p","e","r","a","t","i","o","n","s"," ","r","e","l","a","t","e","d"," ","t","o"," ">> \o Str(company_name)

\* job_description[:400] in a prompt raises on None, before the call is made.
PromptRaises(description_arg) == description_arg = None

\* A fallback sentence that names the job title as well.
generate_company_description_with_title(company_name, title_arg, description_arg, outcome) ==
  IF PromptRaises(description_arg) \/ ~ outcome.ok
  THEN Str(title_arg) \o <<" ","a","t"," ">> \o FallbackDescription(company_name)
  ELSE Strip(outcome.content)

generate_company_description(company_name, title_arg, description_arg, outcome) ==
  IF PromptRaises(description_arg) \/ ~ outcome.ok
  THEN FallbackDescription(company_name)
  ELSE Strip(outcome.content)

\* The rows of a table with the given code.
MatchingRows(df, code) == SelectSeq(df, LAMBDA row : row.code = code)

\* ''.join(filter(str.isdigit, ai_suggested_code))[:5]
AiCodeClean(content) == Prefix(OnlyDigits(Strip(content)), 5)

-----------------------------------------------------------------------------
(* The engine's tables and the queries *)

Row(code, title) == [code |-> code, title |-> title]

\* Industry tables: rows of 3, 4 and 5 digits; 5-digit rows far from every
\* query; no 5-digit row; no row at all.
SsicTables == {
  << Row(<<"6","2","0">>, <<"C","o","m","p","u","t","e","r"," ","p","r","o","g","r","a","m","m","i","n","g"," ","a","n","d"," ","c","o","n","s","u","l","t","a","n","c","y">>),
     Row(<<"6","2","0","1">>, <<"C","o","m","p","u","t","e","r"," ","p","r","o","g","r","a","m","m","i","n","g">>),
     Row(<<"6","2","0","1","1">>, <<"D","e","v","e","l","o","p","m","e","n","t"," ","o","f"," ","s","o","f","t","w","a","r","e">>),
     Row(<<"6","4","1","9","1">>, <<"B","a","n","k","i","n","g"," ","s","e","r","v","i","c","e","s">>) >>,
  << Row(<<"0","1","1","1","1">>, <<"G","r","o","w","i","n","g"," ","o","f"," ","r","i","c","e">>),
     Row(<<"0","1","1","1">>, <<"G","r","o","w","i","n","g"," ","o","f"," ","c","e","r","e","a","l","s">>) >>,
  << Row(<<"6","2","0","1">>, <<"C","o","m","p","u","t","e","r"," ","p","r","o","g","r","a","m","m","i","n","g">>) >>,
  << >> }

\* Occupation tables: rows of 3, 4 and 5 digits; a table whose only 5-digit
\* row scores below its 4-digit row for a software query; no row at all.
SsocTables == {
  << Row(<<"2","5","1">>, <<"S","o","f","t","w","a","r","e"," ","a","n","d"," ","a","p","p","l","i","c","a","t","i","o","n","s"," ","d","e","v","e","l","o","p","e","r","s">>),
     Row(<<"2","5","1","2">>, <<"S","o","f","t","w","a","r","e"," ","d","e","v","e","l","o","p","e","r","s">>),
     Row(<<"2","5","1","2","1">>, <<"S","o","f","t","w","a","r","e"," ","d","e","v","e","l","o","p","e","r">>),
     Row(<<"2","4","1","3","1">>, <<"F","i","n","a","n","c","i","a","l"," ","a","n","a","l","y","s","t">>),
     Row(<<"1","2","1","1","1">>, <<"F","i","n","a","n","c","e"," ","m","a","n","a","g","e","r">>) >>,
  << Row(<<"2","5","1","2">>, <<"S","o","f","t","w","a","r","e"," ","d","e","v","e","l","o","p","e","r","s">>),
     Row(<<"2","5","1","9","1">>, <<"S","o","f","t","w","a","r","e"," ","t","e","s","t","e","r">>) >>,
  << >> }

Companies == { <<"T","e","c","h"," ","S","o","l","u","t","i","o","n","s">>, <<"D","B","S"," ","B","a","n","k">> }
Titles == { <<"S","e","n","i","o","r"," ","S","o","f","t","w","a","r","e"," ","E","n","g","i","n","e","e","r">>, <<"F","i","n","a","n","c","i","a","l"," ","A","n","a","l","y","s","t">>, None }
Descriptions == { <<"D","e","v","e","l","o","p"," ","s","o","f","t","w","a","r","e">>, <<"A","n","a","l","y","z","e"," ","m","a","r","k","e","t"," ","d","a","t","a">>, None }
ApiKeys == { None, <<"s","k","-","t","e","s","t">> }

\* What the company-analysis call can give.
DescriptionOutcomes == {
  LLMFail,
  LLMReply(<<" ","A"," ","t","e","c","h","n","o","l","o","g","y"," ","c","o","m","p","a","n","y"," ","d","e","v","e","l","o","p","i","n","g"," ","s","o","f","t","w","a","r","e","."," ">>),
  LLMReply(<<" ">>) }

\* What a code-selection call can give.
CodeOutcomes == {
  LLMFail,
  LLMReply(<<"2","5","1","2","1">>),
  LLMReply(<<"S","S","O"," ","C","o","d","e",":"," ","2","5","1","2">>),
  LLMReply(<<"6","2","0","1","1"," ","(","D","e","v","e","l","o","p","m","e","n","t"," ","o","f"," ","s","o","f","t","w","a","r","e",")">>),
  LLMReply(<<"6","2","0","1">>),
  LLMReply(<<"n","o","n","e">>) }

\* The texts classify_job can give the industry step as the company
\* description: the default, the fallback sentence, a stripped reply.
IndustryDescriptions ==
  { DefaultDescription(c) : c \in Companies }
  \cup { FallbackDescription(c) : c \in Companies }
  \cup { Strip(o.content) : o \in { r \in DescriptionOutcomes : r.ok } }

\* The occupation codes classify_job can give the industry step.
OccupationCodes ==
  { << >> } \cup UNION { { df[i].code : i \in 1..Len(df) } : df \in SsocTables }

\* Tables in which rows score the same for a query: two 5-digit rows and a
\* 4-digit row with one title, the 4-digit row first and the 5-digit rows not
\* in the order of their codes.
SsicTableWithTies ==
  << Row(<<"6","2","0","1">>, <<"D","e","v","e","l","o","p","m","e","n","t"," ","o","f"," ","s","o","f","t","w","a","r","e">>),
     Row(<<"6","2","0","1","2">>, <<"D","e","v","e","l","o","p","m","e","n","t"," ","o","f"," ","s","o","f","t","w","a","r","e">>),
     Row(<<"6","2","0","1","1">>, <<"D","e","v","e","l","o","p","m","e","n","t"," ","o","f"," ","s","o","f","t","w","a","r","e">>),
     Row(<<"6","4","1","9","1">>, <<"B","a","n","k","i","n","g"," ","s","e","r","v","i","c","e","s">>) >>

SsocTableWithTies ==
  << Row(<<"2","5","1","2">>, <<"S","o","f","t","w","a","r","e"," ","d","e","v","e","l","o","p","e","r">>),
     Row(<<"2","5","1","9","1">>, <<"S","o","f","t","w","a","r","e"," ","d","e","v","e","l","o","p","e","r">>),
     Row(<<"2","5","1","2","1">>, <<"S","o","f","t","w","a","r","e"," ","d","e","v","e","l","o","p","e","r">>) >>

\* An occupation table none of whose rows shares a word with a software job.
SsocTableOfFinance ==
  << Row(<<"2","4","1","3","1">>, <<"F","i","n","a","n","c","i","a","l"," ","a","n","a","l","y","s","t">>),
     Row(<<"1","2","1","1","1">>, <<"F","i","n","a","n","c","e"," ","m","a","n","a","g","e","r">>) >>

\* The matchers are functions of the table and the query alone; these are
\* their values over the tables and the queries above.
SsoMatches ==
  [ df \in SsocTables \cup {SsocTableWithTies, SsocTableOfFinance}, c \in Companies, t \in Titles,
    d \in Descriptions |->
      find_best_sso_match(df, c, t, d) ]

SsicMatches ==
  [ df \in SsicTables \cup {SsicTableWithTies}, c \in Companies, d \in Descriptions |->
      find_best_ssic_match(df, c, d) ]

Ssic5Matches ==
  [ df \in SsicTables \cup {SsicTableWithTies}, c \in Companies, d \in IndustryDescriptions,
    code \in OccupationCodes |->
      _find_best_5digit_ssic_match(df, c, d, code) ]

-----------------------------------------------------------------------------
(* AI-assisted classification with its lexical fallback *)

\* _get_sso_candidates scores every row, so it raises on a None title or
\* description as soon as the table has a row.
SsoCandidatesRaise(df, title_arg, description_arg) ==
  (title_arg = None \/ description_arg = None) /\ df # << >>

\* The occupation answer passes validation: the cleaned code is a code of the table.
SsoAnswerAccepted(df, content) == MatchingRows(df, AiCodeClean(content)) # << >>

\* A matcher's result, tagged with the path that gave it.
WithVia(m, via) ==
  [exc |-> m.exc, code |-> m.code, title |-> m.title, score |-> m.score, via |-> via]

\* The validated answer of the model: the code, the title of its first row in
\* the table, confidence 0.90.
AiResult(df, ai_code_clean) ==
  [exc |-> FALSE, code |-> ai_code_clean, title |-> MatchingRows(df, ai_code_clean)[1].title,
   score |-> Times(SCALE, 90), via |-> "ai"]

\* _ai_enhanced_sso_classification; via tells which path gave the result.
_ai_enhanced_sso_classification(df, company_arg, title_arg, description_arg, outcome) ==
  IF /\ ~ SsoCandidatesRaise(df, title_arg, description_arg)
     /\ ~ PromptRaises(description_arg)
     /\ outcome.ok
     /\ SsoAnswerAccepted(df, outcome.content)
  THEN AiResult(df, AiCodeClean(outcome.content))
  ELSE WithVia(SsoMatches[df, company_arg, title_arg, description_arg], "lexical")

\* An industry validation without `len(ai_code_clean) == 5`.
SsicAnswerAcceptedAnyLength(df, content) ==
  MatchingRows(df, AiCodeClean(content)) # << >>

\* The industry answer passes validation: five digits, and a code of the table.
SsicAnswerAccepted(df, content) ==
  /\ Len(AiCodeClean(content)) = 5
  /\ MatchingRows(df, AiCodeClean(content)) # << >>

\* A result of _find_best_5digit_ssic_match, tagged as the lexical path.
Ssic5Lexical(m) ==
  [exc |-> FALSE, code |-> m.code, title |-> m.title, score |-> m.score, via |-> "lexical"]

\* _ai_enhanced_ssic_classification
_ai_enhanced_ssic_classification(df, company_arg, description_arg, sso_code, sso_title, outcome) ==
  IF outcome.ok /\ SsicAnswerAccepted(df, outcome.content)
  THEN AiResult(df, AiCodeClean(outcome.content))
  ELSE Ssic5Lexical(Ssic5Matches[df, company_arg, description_arg, sso_code])
-----------------------------------------------------------------------------
(* classify_job *)

NoClass == [code |-> << >>, title |-> << >>, score |-> 0, via |-> "none"]
NoResult == [returned |-> FALSE]
NoProbe == [op |-> "none"]

\* The record of the except branch of classify_job.
UnknownRecord ==
  [ssic |-> [code |-> <<"U","n","k","n","o","w","n">>, title |-> <<"C","l","a","s","s","i","f","i","c","a","t","i","o","n"," ","f","a","i","l","e","d">>, confidence |-> 0],
   sso  |-> [code |-> <<"U","n","k","n","o","w","n">>, title |-> <<"C","l","a","s","s","i","f","i","c","a","t","i","o","n"," ","f","a","i","l","e","d">>, confidence |-> 0]]

\* A record that carries the company_description field whatever the text is.
AssembledRecordAlwaysWithField(ssic_c, sso_c, description) ==
  [ssic |-> [code |-> ssic_c.code, title |-> ssic_c.title,
             confidence |-> Percent(ssic_c.score)],
   sso  |-> [code |-> sso_c.code, title |-> sso_c.title,
             confidence |-> Percent(sso_c.score)],
   company_description |-> description]

\* The record assembled from the two classifications; company_description is
\* a field only when the text is non-empty.
AssembledRecord(ssic_c, sso_c, description) ==
  IF Truthy(description)
  THEN [ssic |-> [code |-> ssic_c.code, title |-> ssic_c.title,
                  confidence |-> Percent(ssic_c.score)],
        sso  |-> [code |-> sso_c.code, title |-> sso_c.title,
                  confidence |-> Percent(sso_c.score)],
        company_description |-> description]
  ELSE [ssic |-> [code |-> ssic_c.code, title |-> ssic_c.title,
                  confidence |-> Percent(ssic_c.score)],
        sso  |-> [code |-> sso_c.code, title |-> sso_c.title,
                  confidence |-> Percent(sso_c.score)]]

\* A classify_job without the except branch: the exception leaves the call.
OnExceptionPropagates == [result |-> NoResult, raised |-> TRUE]

\* What `except Exception` of classify_job does with an exception of a step.
OnException == [result |-> UnknownRecord, raised |-> FALSE]

\* An industry step that is not given the occupation code.
IndustryArgumentEmpty == << >>

\* The argument classify_job passes as sso_code to the industry step.
IndustryArgument == sso.code

\* An occupation step that keeps state between calls: from the second call
\* of an engine on it reports the score 0.
LexicalOccupationStateful(df, company_arg, title_arg, description_arg) ==
  WithVia(IF calls > 1
          THEN [SsoMatches[df, company_arg, title_arg, description_arg] EXCEPT !.score = 0]
          ELSE SsoMatches[df, company_arg, title_arg, description_arg], "lexical")

\* find_best_sso_match as step 2 calls it without a credential.
LexicalOccupation(df, company_arg, title_arg, description_arg) ==
  WithVia(SsoMatches[df, company_arg, title_arg, description_arg], "lexical")

\* _find_best_5digit_ssic_match as step 3 calls it.
LexicalIndustry(df, company_arg, description_arg, sso_code) ==
  Ssic5Lexical(Ssic5Matches[df, company_arg, description_arg, sso_code])

\* The (code, title, score) a step keeps of what its classifier returned.
Classification(r) ==
  [code |-> r.code, title |-> r.title, score |-> r.score, via |-> r.via]

\* company_description or f"Business operations related to {company}"
DescriptionOrDefault ==
  IF Truthy(company_description) THEN company_description
  ELSE DefaultDescription(company)

\* The locals of classify_job before its first statement.
FreshCall ==
  /\ pc' = "step1"
  /\ company_description' = << >>
  /\ sso' = NoClass
  /\ ssic' = NoClass
  /\ result' = NoResult
  /\ raised' = FALSE
  /\ steps' = << >>
  /\ llm_calls' = << >>

Init ==
  /\ ssic_df \in SsicTables
  /\ ssoc_df \in SsocTables
  /\ company \in Companies
  /\ job_title \in Titles
  /\ job_description \in Descriptions
  /\ api_key \in ApiKeys
  /\ calls = 1
  /\ pc = "step1"
  /\ company_description = << >>
  /\ sso = NoClass
  /\ ssic = NoClass
  /\ result = NoResult
  /\ raised = FALSE
  /\ steps = << >>
  /\ llm_calls = << >>
  /\ probe = NoProbe

\* Step 1 with a credential: generate_company_description.
GenerateCompanyAnalysis ==
  /\ pc = "step1"
  /\ Truthy(api_key)
  /\ \E outcome \in DescriptionOutcomes :
       /\ company_description' =
            generate_company_description(company, job_title, job_description, outcome)
       /\ llm_calls' = IF PromptRaises(job_description) THEN llm_calls
                       ELSE Append(llm_calls, [call |-> "company_analysis", ok |-> outcome.ok,
                                            content |-> outcome.content])
  /\ steps' = Append(steps, [step |-> "company_analysis", sso_code |-> << >>])
  /\ pc' = "step2"
  /\ UNCHANGED << ssic_df, ssoc_df, company, job_title, job_description, api_key,
                  calls, sso, ssic, result, raised, probe >>

\* Step 1 without a credential: company_description stays "".
NoCompanyAnalysis ==
  /\ pc = "step1"
  /\ ~ Truthy(api_key)
  /\ company_description' = << >>
  /\ pc' = "step2"
  /\ UNCHANGED << ssic_df, ssoc_df, company, job_title, job_description, api_key,
                  calls, sso, ssic, result, raised, steps, llm_calls, probe >>

\* The end of step 2 with the classification r: on an exception the except
\* branch returns at once.
OccupationDone(r) ==
  /\ steps' = Append(steps, [step |-> "occupation", sso_code |-> << >>])
  /\ IF r.exc
     THEN /\ result' = OnException.result
          /\ raised' = OnException.raised
          /\ pc' = "done"
          /\ sso' = sso
     ELSE /\ sso' = Classification(r)
          /\ pc' = "step3"
          /\ UNCHANGED << result, raised >>

\* Step 2 with a credential: _ai_enhanced_sso_classification.
ClassifyOccupationAI ==
  /\ pc = "step2"
  /\ Truthy(api_key)
  /\ \E outcome \in CodeOutcomes :
       /\ OccupationDone(_ai_enhanced_sso_classification(ssoc_df, company, job_title,
                                                         job_description, outcome))
       /\ llm_calls' = IF SsoCandidatesRaise(ssoc_df, job_title, job_description)
                          \/ PromptRaises(job_description)
                       THEN llm_calls
                       ELSE Append(llm_calls, [call |-> "occupation", ok |-> outcome.ok,
                                            content |-> outcome.content])
  /\ UNCHANGED << ssic_df, ssoc_df, company, job_title, job_description, api_key,
                  calls, company_description, ssic, probe >>

\* Step 2 without a credential: find_best_sso_match.
ClassifyOccupationLexical ==
  /\ pc = "step2"
  /\ ~ Truthy(api_key)
  /\ OccupationDone(LexicalOccupation(ssoc_df, company, job_title, job_description))
  /\ UNCHANGED << ssic_df, ssoc_df, company, job_title, job_description, api_key,
                  calls, company_description, ssic, llm_calls, probe >>

\* Step 3 with a credential and a company analysis: _ai_enhanced_ssic_classification.
ClassifyIndustryAI ==
  /\ pc = "step3"
  /\ Truthy(api_key) /\ Truthy(company_description)
  /\ \E outcome \in CodeOutcomes :
       /\ ssic' = Classification(
                    _ai_enhanced_ssic_classification(ssic_df, company, company_description,
                                                     IndustryArgument, sso.title, outcome))
       /\ llm_calls' = Append(llm_calls, [call |-> "industry", ok |-> outcome.ok,
                                            content |-> outcome.content])
  /\ steps' = Append(steps, [step |-> "industry", sso_code |-> IndustryArgument])
  /\ pc' = "assemble"
  /\ UNCHANGED << ssic_df, ssoc_df, company, job_title, job_description, api_key,
                  calls, company_description, sso, result, raised, probe >>

\* Step 3 otherwise: _find_best_5digit_ssic_match.
ClassifyIndustryLexical ==
  /\ pc = "step3"
  /\ ~ (Truthy(api_key) /\ Truthy(company_description))
  /\ ssic' = Classification(LexicalIndustry(ssic_df, company, DescriptionOrDefault, IndustryArgument))
  /\ steps' = Append(steps, [step |-> "industry", sso_code |-> IndustryArgument])
  /\ pc' = "assemble"
  /\ UNCHANGED << ssic_df, ssoc_df, company, job_title, job_description, api_key,
                  calls, company_description, sso, result, raised, llm_calls, probe >>

\* The result record is built and returned.
AssembleResult ==
  /\ pc = "assemble"
  /\ result' = AssembledRecord(ssic, sso, company_description)
  /\ steps' = Append(steps, [step |-> "assemble", sso_code |-> << >>])
  /\ pc' = "done"
  /\ UNCHANGED << ssic_df, ssoc_df, company, job_title, job_description, api_key,
                  calls, company_description, sso, ssic, raised, llm_calls, probe >>

\* The steps of one call of classify_job.
ClassifyJob ==
  \/ GenerateCompanyAnalysis
  \/ NoCompanyAnalysis
  \/ ClassifyOccupationAI
  \/ ClassifyOccupationLexical
  \/ ClassifyIndustryAI
  \/ ClassifyIndustryLexical
  \/ AssembleResult

\* How many calls of classify_job one engine serves in a run of the model.
MaxCalls == 2

\* The caller calls classify_job again on the same engine, with any query.
NewCall ==
  /\ pc = "done"
  /\ calls < MaxCalls
  /\ calls' = calls + 1
  /\ company' \in Companies
  /\ job_title' \in Titles
  /\ job_description' \in Descriptions
  /\ api_key' \in ApiKeys
  /\ FreshCall
  /\ UNCHANGED << ssic_df, ssoc_df, probe >>

Next == ClassifyJob \/ NewCall

Spec == Init /\ [][Next]_vars

\* Every started call is run to its return: the interpreter runs the steps
\* one after the other and every LLM call returns or fails.
FairSpec == Spec /\ WF_vars(ClassifyJob)

-----------------------------------------------------------------------------
(* The same query asked twice: first without a credential, then again with *)
(* or without one; probe keeps the first call's record.                     *)

CallAgain ==
  /\ pc = "done"
  /\ probe = NoProbe
  /\ ~ Truthy(api_key)
  /\ probe' = [op |-> "first_call", result |-> result, raised |-> raised]
  /\ api_key' \in ApiKeys
  /\ calls' = calls + 1
  /\ FreshCall
  /\ UNCHANGED << ssic_df, ssoc_df, company, job_title, job_description >>

NextRepeat == ClassifyJob \/ CallAgain

SpecRepeat == Init /\ [][NextRepeat]_vars

-----------------------------------------------------------------------------
(* The two-tier matchers called directly on the engine. *)

CallFindBestSsicMatch ==
  /\ probe = NoProbe
  /\ pc = "step1"
  /\ probe' = [op |-> "find_best_ssic_match",
               out |-> SsicMatches[ssic_df, company, job_description]]
  /\ UNCHANGED << ssic_df, ssoc_df, company, job_title, job_description, api_key,
                  calls, pc, company_description, sso, ssic, result, raised, steps,
                  llm_calls >>

CallFindBestSsoMatch ==
  /\ probe = NoProbe
  /\ pc = "step1"
  /\ probe' = [op |-> "find_best_sso_match",
               out |-> SsoMatches[ssoc_df, company, job_title, job_description]]
  /\ UNCHANGED << ssic_df, ssoc_df, company, job_title, job_description, api_key,
                  calls, pc, company_description, sso, ssic, result, raised, steps,
                  llm_calls >>

NextMatch == CallFindBestSsicMatch \/ CallFindBestSsoMatch

SpecMatch == Init /\ [][NextMatch]_vars

-----------------------------------------------------------------------------
(* The helpers of the industry step called directly on the engine. *)

\* Codes of 5-digit industry rows, as _find_best_5digit_ssic_match passes them.
SsicCodeArgs ==
  { <<"6","2","0","1","1">>, <<"6","4","1","9","1">>, <<"6","6","1","1","0">>, <<"7","0","2","0","1">>, <<"4","7","1","1","0">>, <<"8","4","1","1","0">>, <<"8","6","1","0","1">>,
    <<"1","0","1","0","1">>, <<"2","0","1","1","1">>, <<"3","0","1","1","0">>, <<"0","1","1","1","1">> }

\* Occupation codes as classify_job passes them on: of a 5-digit row, of a
\* 4-digit row, or empty.
SsoCodeArgs ==
  { <<"2","5","1","2","1">>, <<"2","4","1","3","1">>, <<"2","4","2","1","0">>, <<"1","2","1","1","1">>, <<"1","2","1","1","0">>, <<"1","1","1","1","0">>, <<"2","2","1","1","0">>,
    <<"2","1","4","1","0">>, <<"3","3","3","1","0">>, <<"2","5","1","2">>, << >> }

CallCompatibility ==
  /\ probe = NoProbe
  /\ pc = "step1"
  /\ \E ssic_code \in SsicCodeArgs, sso_code \in SsoCodeArgs :
       probe' = [op |-> "_calculate_ssic_sso_compatibility",
                 ssic_code |-> ssic_code, sso_code |-> sso_code,
                 out |-> _calculate_ssic_sso_compatibility(ssic_code, sso_code)]
  /\ UNCHANGED << ssic_df, ssoc_df, company, job_title, job_description, api_key,
                  calls, pc, company_description, sso, ssic, result, raised, steps,
                  llm_calls >>

\* _find_best_5digit_ssic_match with a description that classify_job can
\* pass to it for the company, and no occupation code or one of the table.
CallFindBest5DigitSsicMatch ==
  /\ probe = NoProbe
  /\ pc = "step1"
  /\ \E description \in { d \in IndustryDescriptions :
                             d \notin { DefaultDescription(c) : c \in Companies \ {company} }
                                       \cup { FallbackDescription(c) : c \in Companies \ {company} } },
        sso_code \in { << >> } \cup { ssoc_df[i].code : i \in 1..Len(ssoc_df) } :
       probe' = [op |-> "_find_best_5digit_ssic_match",
                 description |-> description, sso_code |-> sso_code,
                 out |-> Ssic5Matches[ssic_df, company, description, sso_code]]
  /\ UNCHANGED << ssic_df, ssoc_df, company, job_title, job_description, api_key,
                  calls, pc, company_description, sso, ssic, result, raised, steps,
                  llm_calls >>

\* Descriptions of a query of find_best_ssic_match.
RowQueryDescriptions ==
  Descriptions
  \cup { <<"C","l","o","u","d"," ","s","o","f","t","w","a","r","e"," ","a","n","d"," ","d","a","t","a"," ","p","l","a","t","f","o","r","m"," ","f","o","r"," ","r","e","t","a","i","l"," ","b","a","n","k","i","n","g"," ","s","e","r","v","i","c","e","s">> }

\* The combined score find_best_ssic_match gives one row for a query: the
\* 5-digit formula for a 5-digit row, the 4-digit one for a 4-digit row.
IndustryRowScore(row, company_arg, description_arg) ==
  SsicRowScore(company_arg, SsicSearchText(company_arg, description_arg),
               _extract_industry_keywords(SsicSearchText(company_arg, description_arg)),
               Lower(row.title), Len(row.code))

\* One iteration of a scan of find_best_ssic_match: a row is scored for the
\* query.
ScoreIndustryRow ==
  /\ probe = NoProbe
  /\ pc = "step1"
  /\ \E i \in 1..Len(ssic_df), description \in RowQueryDescriptions :
       /\ Len(ssic_df[i].code) \in {4, 5}
       /\ probe' = [op |-> "combined_score", row |-> ssic_df[i],
                    search_text |-> SsicSearchText(company, description),
                    out |-> IndustryRowScore(ssic_df[i], company, description)]
  /\ UNCHANGED << ssic_df, ssoc_df, company, job_title, job_description, api_key,
                  calls, pc, company_description, sso, ssic, result, raised, steps,
                  llm_calls >>

NextDirect ==
  \/ CallCompatibility
  \/ ScoreIndustryRow
  \/ CallFindBestSsicMatch
  \/ CallFindBestSsoMatch
  \/ CallFindBest5DigitSsicMatch

SpecDirect == Init /\ [][NextDirect]_vars

-----------------------------------------------------------------------------
(* Two calls of classify_job running concurrently on one engine: each has  *)
(* its own arguments and locals, the tables are the engine's.  The call    *)
(* that is not running is kept in probe, with the control point the first  *)
(* call was at when the second began.                                      *)

\* The arguments and locals of the running call.
Frame ==
  [company |-> company, job_title |-> job_title, job_description |-> job_description,
   api_key |-> api_key, pc |-> pc, company_description |-> company_description,
   sso |-> sso, ssic |-> ssic, result |-> result, raised |-> raised,
   steps |-> steps, llm_calls |-> llm_calls]

\* A call whose company_description is kept on the engine and so is shared
\* with the other call.
ResumedDescriptionShared(frame) == company_description

\* company_description is a local of classify_job: the resumed call finds
\* its own.
ResumedDescription(frame) == frame.company_description

\* A second thread calls classify_job, with another company, title and
\* description, while the first call is anywhere between its first statement
\* and its return.
StartConcurrentCall ==
  /\ probe = NoProbe
  /\ probe' = [op |-> "suspended", frame |-> Frame, started_at |-> pc]
  /\ calls' = calls + 1
  /\ company' \in Companies \ {company}
  /\ job_title' \in Titles \ {job_title}
  /\ job_description' \in Descriptions \ {job_description}
  /\ api_key' \in ApiKeys
  /\ FreshCall
  /\ UNCHANGED << ssic_df, ssoc_df >>

\* The interpreter switches to the other thread.
Switch ==
  /\ probe.op = "suspended"
  /\ probe' = [op |-> "suspended", frame |-> Frame, started_at |-> probe.started_at]
  /\ company' = probe.frame.company
  /\ job_title' = probe.frame.job_title
  /\ job_description' = probe.frame.job_description
  /\ api_key' = probe.frame.api_key
  /\ pc' = probe.frame.pc
  /\ company_description' = ResumedDescription(probe.frame)
  /\ sso' = probe.frame.sso
  /\ ssic' = probe.frame.ssic
  /\ result' = probe.frame.result
  /\ raised' = probe.frame.raised
  /\ steps' = probe.frame.steps
  /\ llm_calls' = probe.frame.llm_calls
  /\ UNCHANGED << ssic_df, ssoc_df, calls >>

NextConcurrent == ClassifyJob \/ StartConcurrentCall \/ Switch

\* An engine with several 5-digit rows in each table, and a first call for a
\* software engineer of Tech Solutions, with or without a credential.
InitConcurrent ==
  /\ Init
  /\ Len(RowsOfLen(ssic_df, 5)) > 1
  /\ Len(RowsOfLen(ssoc_df, 5)) > 1
  /\ company = <<"T","e","c","h"," ","S","o","l","u","t","i","o","n","s">>
  /\ job_title = <<"S","e","n","i","o","r"," ","S","o","f","t","w","a","r","e"," ","E","n","g","i","n","e","e","r">>
  /\ job_description = <<"D","e","v","e","l","o","p"," ","s","o","f","t","w","a","r","e">>

SpecConcurrent == InitConcurrent /\ [][NextConcurrent]_vars

-----------------------------------------------------------------------------
(* The candidate shortlist of the AI-assisted industry step. *)

\* combined_score of _get_ssic_candidates_from_company_analysis for every
\* row of the table: no clamp and no bonus.
CandidateScores(df, search_text, keywords) ==
  [ i \in 1..Len(df) |->
      Times(enhanced_text_matching(search_text, Lower(df[i].title)), 40)
      + Times(_calculate_enhanced_keyword_score(keywords, Lower(df[i].title)), 40)
      + Times(_calculate_company_industry_score(search_text, Lower(df[i].title)), 20) ]

\* candidates.sort(key=lambda x: x[2], reverse=True): a stable sort, rows of
\* equal score stay in table order.
SortedByScore(df, scores) ==
  [ k \in 1..Len(df) |->
      LET i == CHOOSE i \in 1..Len(df) :
                 k = 1 + Cardinality({ j \in 1..Len(df) : scores[j] > scores[i] })
                       + Cardinality({ j \in 1..(i - 1) : scores[j] = scores[i] })
      IN  [code |-> df[i].code, title |-> df[i].title, score |-> scores[i]] ]

\* The list candidates is filled row after row, then sorted.
_get_ssic_candidates_from_company_analysis(df, description_arg) ==
  SortedByScore(df, SubSeq(CandidateScores(df, Lower(description_arg),
                                           _extract_industry_keywords(Lower(description_arg))),
                           1, Len(df)))

\* A shortlist of all the 5-digit candidates, without [:15].
five_digit_candidates_uncut(df, description_arg) ==
  SelectSeq(_get_ssic_candidates_from_company_analysis(df, description_arg),
            LAMBDA c : Len(c.code) = 5)

\* [... for code, title, score in candidates if len(code) == 5][:15]
five_digit_candidates(df, description_arg) ==
  Prefix(SelectSeq(_get_ssic_candidates_from_company_analysis(df, description_arg),
                   LAMBDA c : Len(c.code) = 5),
         15)

\* An industry table with a 4-digit row and sixteen 5-digit rows.
SsicTableOfSixteen == <<
  Row(<<"6","2","0","1">>, <<"C","o","m","p","u","t","e","r"," ","p","r","o","g","r","a","m","m","i","n","g">>),
  Row(<<"6","2","0","1","1">>, <<"D","e","v","e","l","o","p","m","e","n","t"," ","o","f"," ","s","o","f","t","w","a","r","e">>),
  Row(<<"6","2","0","2","1">>, <<"I","n","f","o","r","m","a","t","i","o","n"," ","t","e","c","h","n","o","l","o","g","y"," ","c","o","n","s","u","l","t","a","n","c","y">>),
  Row(<<"6","3","1","1","1">>, <<"D","a","t","a"," ","h","o","s","t","i","n","g">>),
  Row(<<"6","4","1","9","1">>, <<"B","a","n","k","i","n","g"," ","s","e","r","v","i","c","e","s">>),
  Row(<<"6","5","1","1","0">>, <<"L","i","f","e"," ","i","n","s","u","r","a","n","c","e">>),
  Row(<<"6","6","1","1","0">>, <<"F","u","n","d"," ","m","a","n","a","g","e","m","e","n","t">>),
  Row(<<"4","7","1","1","0">>, <<"R","e","t","a","i","l"," ","s","a","l","e"," ","i","n"," ","s","u","p","e","r","m","a","r","k","e","t","s">>),
  Row(<<"5","5","1","0","1">>, <<"H","o","t","e","l","s">>),
  Row(<<"5","6","1","1","1">>, <<"R","e","s","t","a","u","r","a","n","t","s">>),
  Row(<<"8","5","1","0","1">>, <<"P","r","i","m","a","r","y"," ","s","c","h","o","o","l","s">>),
  Row(<<"8","6","1","0","1">>, <<"H","o","s","p","i","t","a","l","s">>),
  Row(<<"4","1","0","0","1">>, <<"B","u","i","l","d","i","n","g"," ","c","o","n","s","t","r","u","c","t","i","o","n">>),
  Row(<<"4","9","2","1","1">>, <<"B","u","s"," ","s","e","r","v","i","c","e","s">>),
  Row(<<"5","2","1","0","1">>, <<"W","a","r","e","h","o","u","s","i","n","g">>),
  Row(<<"0","1","1","1","1">>, <<"G","r","o","w","i","n","g"," ","o","f"," ","r","i","c","e">>),
  Row(<<"7","0","2","0","1">>, <<"M","a","n","a","g","e","m","e","n","t"," ","c","o","n","s","u","l","t","a","n","c","y">>) >>

\* An engine with that industry table, before a call with a credential and
\* a job title.
InitShortlist ==
  /\ ssic_df = SsicTableOfSixteen
  /\ ssoc_df \in SsocTables
  /\ company \in Companies
  /\ job_title \in Titles \ {None}
  /\ job_description \in Descriptions
  /\ api_key \in ApiKeys \ {None}
  /\ calls = 1
  /\ pc = "step1"
  /\ company_description = << >>
  /\ sso = NoClass
  /\ ssic = NoClass
  /\ result = NoResult
  /\ raised = FALSE
  /\ steps = << >>
  /\ llm_calls = << >>
  /\ probe = NoProbe

\* _ai_enhanced_ssic_classification called with a company description of
\* step 1, in the case that the model answers with the code of a 5-digit
\* row; presented is the shortlist put into the prompt.
CallAiEnhancedSsic ==
  /\ probe = NoProbe
  /\ pc = "step1"
  /\ \E description \in { FallbackDescription(company),
                          <<"A"," ","t","e","c","h","n","o","l","o","g","y"," ","c","o","m","p","a","n","y"," ","d","e","v","e","l","o","p","i","n","g"," ","s","o","f","t","w","a","r","e",".">> } :
       LET presented == five_digit_candidates(ssic_df, description)
       IN  \E outcome \in { LLMReply(<<"6","2","0","1","1">>), LLMReply(<<"6","4","1","9","1"," ","(","B","a","n","k","i","n","g"," ","s","e","r","v","i","c","e","s",")">>),
                            LLMReply(<<"S","S","I","C"," ","C","o","d","e",":"," ","7","0","2","0","1">>) } :
             probe' = [op |-> "_ai_enhanced_ssic_classification",
                       description |-> description,
                       presented |-> presented,
                       out |-> _ai_enhanced_ssic_classification(ssic_df, company, description,
                                                                sso.code, sso.title, outcome)]
  /\ UNCHANGED << ssic_df, ssoc_df, company, job_title, job_description, api_key,
                  calls, pc, company_description, sso, ssic, result, raised, steps,
                  llm_calls >>

\* A second call with the same company description for another company and
\* job, and with the occupation of the last row of the occupation table;
\* first is the shortlist of the first call.
CallAiEnhancedSsicAgain ==
  /\ probe.op = "_ai_enhanced_ssic_classification"
  /\ ssoc_df # << >>
  /\ probe' = [op |-> "second_call",
               description |-> probe.description,
               first |-> probe.presented,
               occupation |-> ssoc_df[Len(ssoc_df)].code,
               presented |-> five_digit_candidates(ssic_df, probe.description),
               out |-> probe.out]
  /\ company' \in Companies \ {company}
  /\ job_title' \in Titles \ {job_title, None}
  /\ job_description' \in Descriptions \ {job_description, None}
  /\ UNCHANGED << ssic_df, ssoc_df, api_key, calls, pc, company_description, sso, ssic,
                  result, raised, steps, llm_calls >>

SpecShortlist == InitShortlist /\ [][CallAiEnhancedSsic \/ CallAiEnhancedSsicAgain]_vars


-----------------------------------------------------------------------------
(* The confidence boost of the two scans, applied to the same scores *)

\* Component scores around the thresholds 0.6, 0.7 and 0.8 of the boosts.
ComponentScores ==
  { Times(SCALE, p) : p \in {0, 60, 65, 70, 75, 80, 85, 100} }

\* The boost find_best_ssic_match adds in each of its two scans for one
\* pair of text and keyword scores.
CallSsicConfidenceBoost ==
  /\ probe = NoProbe
  /\ \E text_score \in ComponentScores, keyword_score \in ComponentScores :
        probe' = [op |-> "confidence_boost", matcher |-> "find_best_ssic_match",
                  scores |-> << text_score, keyword_score >>,
                  five |-> SsicConfidenceBoost(5, text_score, keyword_score),
                  four |-> SsicConfidenceBoost(4, text_score, keyword_score)]
  /\ UNCHANGED << ssic_df, ssoc_df, company, job_title, job_description, api_key, calls, pc,
                  company_description, sso, ssic, result, raised, steps, llm_calls >>

\* The boost find_best_sso_match adds in each of its two scans for one
\* triple of title, keyword and exact-match scores.
CallSsoConfidenceBoost ==
  /\ probe = NoProbe
  /\ \E title_score \in ComponentScores, keyword_score \in ComponentScores,
        exact_match_score \in ComponentScores :
        probe' = [op |-> "confidence_boost", matcher |-> "find_best_sso_match",
                  scores |-> << title_score, keyword_score, exact_match_score >>,
                  five |-> SsoConfidenceBoost(5, title_score, keyword_score, exact_match_score),
                  four |-> SsoConfidenceBoost(4, title_score, keyword_score, exact_match_score)]
  /\ UNCHANGED << ssic_df, ssoc_df, company, job_title, job_description, api_key, calls, pc,
                  company_description, sso, ssic, result, raised, steps, llm_calls >>

\* Best scores of a scan around the threshold 0.5 of the final boost: 0.5,
\* one unit below and above it, and values up to 1.0.
BestScores ==
  { Times(SCALE, 50) - 1, Times(SCALE, 50), Times(SCALE, 50) + 1 }
  \cup { Times(SCALE, p) : p \in {0, 20, 40, 51, 55, 60, 80, 84, 100} }

\* The last statements of the matchers: the final boost of a best score, by
\* 1.2 in find_best_ssic_match and _find_best_5digit_ssic_match and by 1.25
\* in find_best_sso_match.
ApplyFinalBoost ==
  /\ probe = NoProbe
  /\ \E best_score \in BestScores :
        probe' = [op |-> "final_boost", best_score |-> best_score,
                  ssic |-> FinalBoostSsic(best_score),
                  sso |-> FinalBoostSso(best_score)]
  /\ UNCHANGED << ssic_df, ssoc_df, company, job_title, job_description, api_key, calls, pc,
                  company_description, sso, ssic, result, raised, steps, llm_calls >>

SpecBoost ==
  Init /\ [][CallSsicConfidenceBoost \/ CallSsoConfidenceBoost \/ ApplyFinalBoost]_vars

-----------------------------------------------------------------------------
(* The matchers on tables whose rows tie *)

\* An engine loaded with the tables whose rows tie, before a call.
InitTies ==
  /\ ssic_df = SsicTableWithTies
  /\ ssoc_df = SsocTableWithTies
  /\ company \in Companies
  /\ job_title \in Titles
  /\ job_description \in Descriptions
  /\ api_key = None
  /\ calls = 1
  /\ pc = "step1"
  /\ company_description = << >>
  /\ sso = NoClass
  /\ ssic = NoClass
  /\ result = NoResult
  /\ raised = FALSE
  /\ steps = << >>
  /\ llm_calls = << >>
  /\ probe = NoProbe

SpecTies == InitTies /\ [][NextDirect]_vars

-----------------------------------------------------------------------------
(* find_best_sso_match and classify_job on a table whose rows may all score 0 *)

InitUnmatched ==
  /\ ssic_df = SsicTableWithTies
  /\ ssoc_df \in {SsocTableOfFinance, SsocTableWithTies}
  /\ company \in Companies
  /\ job_title \in Titles
  /\ job_description \in Descriptions
  /\ api_key \in ApiKeys
  /\ calls = 1
  /\ pc = "step1"
  /\ company_description = << >>
  /\ sso = NoClass
  /\ ssic = NoClass
  /\ result = NoResult
  /\ raised = FALSE
  /\ steps = << >>
  /\ llm_calls = << >>
  /\ probe = NoProbe

SpecUnmatched == InitUnmatched /\ [][ClassifyJob \/ CallFindBestSsoMatch]_vars

-----------------------------------------------------------------------------
(* enhance_classification_with_ai *)

\* What the validation call can give: a failure, a reply, a reply without
\* content (content.strip() raises on None).
ValidationOutcomes == {
  LLMFail,
  LLMReply(<<" ","G","O","O","D"," ">>),
  LLMReply(<<"B","e","t","t","e","r"," ","m","a","t","c","h",":"," ","S","S","I","C"," ","6","4","1","9","1",","," ","S","S","O"," ","2","4","1","3","1">>),
  LLMReply(None) }

\* The try block is left by an exception.
ValidationRaises(outcome) == ~ outcome.ok \/ outcome.content = None

\* A validation whose reply replaces the industry code.
WithAiSuggestion(base_classification, ai_feedback) ==
  [ k \in DOMAIN base_classification \cup {"ai_validation"} |->
      CASE k = "ai_validation" -> ai_feedback
        [] k = "ssic" -> [base_classification[k] EXCEPT !.code = Prefix(OnlyDigits(ai_feedback), 5)]
        [] OTHER -> base_classification[k] ]

\* base_classification['ai_validation'] = ai_feedback
WithAiValidation(base_classification, ai_feedback) ==
  [ k \in DOMAIN base_classification \cup {"ai_validation"} |->
      IF k = "ai_validation" THEN ai_feedback ELSE base_classification[k] ]

\* enhance_classification_with_ai once its classify_job(company, job_title,
\* job_description) has returned: the validation call, then the return of
\* the record with the reply attached, or the except branch, which starts
\* classify_job again.
ValidateWithAi ==
  /\ pc = "done"
  /\ probe = NoProbe
  /\ \E outcome \in ValidationOutcomes :
        IF ValidationRaises(outcome)
        THEN /\ probe' = [op |-> "enhance_classification_with_ai", base |-> result,
                          returned |-> FALSE, failed |-> TRUE, out |-> NoResult]
             /\ calls' = calls + 1
             /\ FreshCall
             /\ UNCHANGED << ssic_df, ssoc_df, company, job_title, job_description, api_key >>
        ELSE /\ probe' = [op |-> "enhance_classification_with_ai", base |-> result,
                          returned |-> TRUE, failed |-> FALSE,
                          out |-> WithAiValidation(result, Strip(outcome.content))]
             /\ UNCHANGED << ssic_df, ssoc_df, company, job_title, job_description, api_key,
                             calls, pc, company_description, sso, ssic, result, raised, steps,
                             llm_calls >>

\* The except branch returns what its classify_job returned.
ReturnAfterFailure ==
  /\ pc = "done"
  /\ probe.op = "enhance_classification_with_ai"
  /\ ~ probe.returned
  /\ probe' = [probe EXCEPT !.returned = TRUE, !.out = result]
  /\ UNCHANGED << ssic_df, ssoc_df, company, job_title, job_description, api_key, calls, pc,
                  company_description, sso, ssic, result, raised, steps, llm_calls >>

\* classify_job is called without api_key, so its steps are the lexical ones.
SpecEnhance ==
  InitTies /\ [][NoCompanyAnalysis \/ ClassifyOccupationLexical \/ ClassifyIndustryLexical
                 \/ AssembleResult \/ ValidateWithAi \/ ReturnAfterFailure]_vars

-----------------------------------------------------------------------------
(* generate_batch_descriptions of src/generator.py *)

\* Job dicts: the three documented keys, one without 'job_description', one
\* with a further key.
JobRecords == {
  [ k \in {"company", "job_title", "job_description"} |->
      CASE k = "company" -> <<"T","e","c","h"," ","S","o","l","u","t","i","o","n","s">>
        [] k = "job_title" -> <<"S","e","n","i","o","r"," ","S","o","f","t","w","a","r","e"," ","E","n","g","i","n","e","e","r">>
        [] OTHER -> <<"D","e","v","e","l","o","p"," ","s","o","f","t","w","a","r","e">> ],
  [ k \in {"company", "job_title"} |->
      IF k = "company" THEN <<"D","B","S"," ","B","a","n","k">> ELSE <<"F","i","n","a","n","c","i","a","l"," ","A","n","a","l","y","s","t">> ],
  [ k \in {"company", "job_title", "job_description", "location"} |->
      CASE k = "company" -> <<"D","B","S"," ","B","a","n","k">>
        [] k = "job_title" -> <<"S","e","n","i","o","r"," ","S","o","f","t","w","a","r","e"," ","E","n","g","i","n","e","e","r">>
        [] k = "job_description" -> << >>
        [] OTHER -> <<"S","i","n","g","a","p","o","r","e">> ] }

\* dict.get(key, default)
Get(job, key, default) == IF key \in DOMAIN job THEN job[key] ELSE default

\* What the body of the try block can do for one job: the scraper or
\* generate_job_description raises an Exception with a message, or
\* generate_job_description returns a text.
GenerationOutcomes(job) == {
  [raised |-> TRUE, value |-> <<"s","e","a","r","c","h"," ","f","a","i","l","e","d">>],
  [raised |-> TRUE, value |-> <<"C","o","n","n","e","c","t","i","o","n"," ","e","r","r","o","r",".">>],
  [raised |-> FALSE,
   value |-> <<"O","v","e","r","v","i","e","w"," ","o","f"," ">> \o Get(job, "job_title", << >>) \o <<" ","a","t"," ">>
             \o Get(job, "company", << >>)] }

\* A result that holds the two new keys only.
ResultOfWithoutCopy(job, outcome) ==
  [ k \in {"generated_description", "status"} |->
      IF k = "status" THEN (IF outcome.raised THEN <<"F","a","i","l","e","d">> ELSE <<"S","u","c","c","e","s","s">>)
      ELSE outcome.value ]

\* result = job.copy() followed by the two assignments, in the try block
\* or in the except block.
ResultOf(job, outcome) ==
  [ k \in DOMAIN job \cup {"generated_description", "status"} |->
      CASE k = "generated_description" ->
             IF outcome.raised THEN <<"E","r","r","o","r",":"," ">> \o outcome.value ELSE outcome.value
        [] k = "status" -> IF outcome.raised THEN <<"F","a","i","l","e","d">> ELSE <<"S","u","c","c","e","s","s">>
        [] OTHER -> job[k] ]

\* How many jobs a batch holds at most.
MaxJobs == 3

\* A call of generate_batch_descriptions with up to MaxJobs jobs, before the
\* first iteration; given is the caller's list as it was at the call.
InitBatch ==
  /\ ssic_df = << >>
  /\ ssoc_df = << >>
  /\ company = None
  /\ job_title = None
  /\ job_description = None
  /\ api_key = <<"s","k","-","t","e","s","t">>
  /\ calls = 0
  /\ pc = "done"
  /\ company_description = << >>
  /\ sso = NoClass
  /\ ssic = NoClass
  /\ result = NoResult
  /\ raised = FALSE
  /\ steps = << >>
  /\ llm_calls = << >>
  /\ \E n \in 0..MaxJobs : \E job_data \in [1..n -> JobRecords] :
        probe = [op |-> "generate_batch_descriptions", given |-> job_data,
                 job_data |-> job_data, idx |-> 1, outcomes |-> << >>, results |-> << >>]

\* One iteration of `for idx, job in enumerate(job_data, 1)`.
ProcessJob ==
  /\ probe.op = "generate_batch_descriptions"
  /\ probe.idx <= Len(probe.job_data)
  /\ \E outcome \in GenerationOutcomes(probe.job_data[probe.idx]) :
        probe' = [probe EXCEPT
                    !.idx = @ + 1,
                    !.outcomes = Append(@, outcome),
                    !.results = Append(@, ResultOf(probe.job_data[probe.idx], outcome))]
  /\ UNCHANGED << ssic_df, ssoc_df, company, job_title, job_description, api_key, calls, pc,
                  company_description, sso, ssic, result, raised, steps, llm_calls >>

\* `return results` once the loop is over.
ReturnResults ==
  /\ probe.op = "generate_batch_descriptions"
  /\ probe.idx > Len(probe.job_data)
  /\ probe' = [probe EXCEPT !.op = "returned"]
  /\ UNCHANGED << ssic_df, ssoc_df, company, job_title, job_description, api_key, calls, pc,
                  company_description, sso, ssic, result, raised, steps, llm_calls >>

SpecBatch == InitBatch /\ [][ProcessJob \/ ReturnResults]_vars
-----------------------------------------------------------------------------
(* Properties *)

Unknown == <<"U","n","k","n","o","w","n">>

\* The code is the code of a row of the table.
InTable(df, code) == \E i \in 1..Len(df) : df[i].code = code

\* Every character of the code is a digit.
AllDigits(code) == \A i \in 1..Len(code) : code[i] \in Digits

\* The names of the steps run so far by the current call, in order.
StepNames == [ i \in 1..Len(steps) |-> steps[i].step ]

\* s is an initial part of t.
IsPrefix(s, t) == Len(s) <= Len(t) /\ \A i \in 1..Len(s) : s[i] = t[i]

\* Every LLM call of the current call of classify_job failed.
AllCallsFailed == \A i \in 1..Len(llm_calls) : ~ llm_calls[i].ok

\* C1: classify_job never propagates an exception; when a step raises (here
\* the occupation matcher, on a query it cannot lower-case) the call returns
\* the record with both codes 'Unknown' and confidence 0; and in a returned
\* record either both codes are 'Unknown' or neither is.
C1_NeverPropagates ==
  /\ ~ raised
  /\ pc = "done" =>
       /\ result # NoResult
       /\ SsoMatchRaises(ssoc_df, job_title, job_description) => result = UnknownRecord
       /\ (result.ssic.code = Unknown) <=> (result.sso.code = Unknown)

C1_RaisedInsideReturnsUnknown ==
  /\ pc = "done"
  /\ SsoMatchRaises(ssoc_df, job_title, job_description)
  /\ result = UnknownRecord
  /\ ~ raised

\* C2: the industry code and the occupation code of a returned record are
\* each the code of a row of the corresponding table or one of the sentinels
\* 'Unknown' and '99999'; neither is the empty string.
C2_CodesFromTableOrSentinel ==
  pc = "done" =>
    /\ InTable(ssic_df, result.ssic.code) \/ result.ssic.code \in {Unknown, OtherCode}
    /\ InTable(ssoc_df, result.sso.code) \/ result.sso.code \in {Unknown, OtherCode}

\* C3: a call with a credential whose every LLM call fails returns the record
\* that the call without a credential returned for the same query on the same
\* engine (same industry, same occupation, same fields), and neither raises.
C3_FailedCredentialSameAsNone ==
  (pc = "done" /\ probe.op = "first_call" /\ Truthy(api_key) /\ AllCallsFailed) =>
    /\ ~ raised
    /\ ~ probe.raised
    /\ result = probe.result

\* The reply of an LLM call does not pass the validation the claim C4 names:
\* the call failed, or the cleaned answer has not 5 digits, or it is no code
\* of the table.
AnswerRejected(df, reply) ==
  \/ ~ reply.ok
  \/ Len(AiCodeClean(reply.content)) # 5
  \/ ~ InTable(df, AiCodeClean(reply.content))

\* C4: a model's answer that is used, for the occupation or for the industry,
\* is a 5-digit code of the table; after a failed call or an answer that is
\* not such a code the classification is that of the lexical fallback.
C4_AnswerUsedOnlyIfValidated ==
  /\ sso.via = "ai" => Len(sso.code) = 5 /\ InTable(ssoc_df, sso.code)
  /\ ssic.via = "ai" => Len(ssic.code) = 5 /\ InTable(ssic_df, ssic.code)
  /\ \A i \in 1..Len(llm_calls) :
       /\ (llm_calls[i].call = "occupation" /\ sso # NoClass
           /\ AnswerRejected(ssoc_df, llm_calls[i]))
          => sso = Classification(LexicalOccupation(ssoc_df, company, job_title, job_description))
       /\ (llm_calls[i].call = "industry" /\ ssic # NoClass
           /\ AnswerRejected(ssic_df, llm_calls[i]))
          => ssic = Classification(LexicalIndustry(ssic_df, company, company_description, sso.code))

\* The steps of a run that reaches the end, in the order of classify_job.
ExpectedSteps ==
  IF Truthy(api_key)
  THEN <<"company_analysis", "occupation", "industry", "assemble">>
  ELSE <<"occupation", "industry", "assemble">>

\* The position of a control point in classify_job.
PcRank ==
  [ p \in {"step1", "step2", "step3", "assemble", "done"} |->
      CASE p = "step1" -> 1 [] p = "step2" -> 2 [] p = "step3" -> 3
        [] p = "assemble" -> 4 [] p = "done" -> 5 ]

\* The steps run so far are an initial part of the fixed order, the industry
\* step was given the code the occupation step produced, and a finished run
\* has returned a record: after all the steps, or the failure record.
StepsInOrder ==
  /\ IsPrefix(StepNames, ExpectedSteps)
  /\ \A i \in 1..Len(steps) :
       steps[i].step = "industry" => sso # NoClass /\ steps[i].sso_code = sso.code
  /\ pc = "done" =>
       /\ result # NoResult
       /\ result = UnknownRecord \/ StepNames = ExpectedSteps

\* C5: in every run of classify_job the steps occur in the fixed order
\* company analysis (with a credential only), occupation, industry, assembly,
\* each at most once and none re-entered; the industry step is given the
\* code the occupation step produced; every run ends by returning a record.
C5_LinearRun ==
  /\ [] StepsInOrder
  /\ [][pc' # pc => (PcRank[pc'] > PcRank[pc] \/ (pc = "done" /\ pc' = "step1"))]_vars
  /\ (pc = "step1") ~> (pc = "done" /\ result # NoResult)

C5_FullRunWithCredential ==
  /\ pc = "done"
  /\ StepNames = <<"company_analysis", "occupation", "industry", "assemble">>
  /\ Truthy(sso.code)
  /\ steps[3].sso_code = sso.code

\* The best 4-digit industry row for the query, scanned on its own.
SsicFourScan ==
  ScanFrom(RowsOfLen(ssic_df, 4),
           SsicScores(RowsOfLen(ssic_df, 4), company,
                      SsicSearchText(company, job_description),
                      _extract_industry_keywords(SsicSearchText(company, job_description)), 4),
           1, NoBest)

\* The best 4-digit occupation row for the query, scanned on its own.
SsoFourScan ==
  ScanFrom(RowsOfLen(ssoc_df, 4),
           SsoScores(RowsOfLen(ssoc_df, 4), job_title, job_description,
                     _extract_job_keywords(SsoSearchText(company, job_title, job_description)), 4),
           1, NoBest)

\* What C6 says of one result of a matcher; four is the best 4-digit row.
TwoTierRule(out, four) ==
  /\ out.scanned4 <=> (out.five.score < Times(SCALE, 40))
  /\ (Len(out.code) = 4) <=>
       (out.five.score < Times(SCALE, 40) /\ four.score > out.five.score)
  /\ Len(out.code) # 4 => out.code = out.five.code /\ out.title = out.five.title
  /\ Len(out.code) # 3

\* C6: in find_best_ssic_match and find_best_sso_match the 4-digit rows are
\* scanned exactly when the best 5-digit score before the final boost is
\* below 0.4; the code returned has 4 digits exactly when that scan ran and a
\* 4-digit row scored strictly higher than the best 5-digit row, otherwise it
\* is the best 5-digit code; a 3-digit row is never returned.
C6_TwoTier ==
  /\ (probe.op = "find_best_ssic_match" /\ ~ probe.out.exc)
       => TwoTierRule(probe.out, SsicFourScan)
  /\ (probe.op = "find_best_sso_match" /\ ~ probe.out.exc)
       => TwoTierRule(probe.out, SsoFourScan)

C6_FourDigitRowWins ==
  /\ probe.op = "find_best_sso_match"
  /\ ~ probe.out.exc
  /\ probe.out.five.score > 0
  /\ Len(probe.out.code) = 4

\* C7: the industry code of every returned record other than the failure
\* record has exactly 5 digits.
C7_IndustryCodeFiveDigits ==
  (pc = "done" /\ result # UnknownRecord) =>
    Len(result.ssic.code) = 5 /\ AllDigits(result.ssic.code)

C7_ModelAnswerUsed ==
  /\ pc = "done"
  /\ ssic.via = "ai"
  /\ result.ssic.code = ssic.code
  /\ Len(result.ssic.code) = 5

\* C8: the occupation code of every returned record other than the failure
\* record has exactly 5 digits.
C8_OccupationCodeFiveDigits ==
  (pc = "done" /\ result # UnknownRecord) => Len(result.sso.code) = 5

\* C9: both confidences of a returned record lie in [0, 100] (in tenths of a
\* percent: 0..1000), and the scores they are computed from lie in [0, 1].
C9_ConfidenceInRange ==
  /\ sso.score \in 0..SCALE
  /\ ssic.score \in 0..SCALE
  /\ pc = "done" =>
       /\ result.ssic.confidence \in 0..1000
       /\ result.sso.confidence \in 0..1000

C9_BoostClamped ==
  /\ pc = "done"
  /\ sso.via = "lexical"
  /\ result.sso.confidence = 1000

\* No 5-digit industry row scores above 0 for the text the lexical industry
\* step is given (true when the table has no 5-digit row).
NoIndustryRowScores ==
  \A i \in 1..Len(RowsOfLen(ssic_df, 5)) :
     Ssic5Scores(RowsOfLen(ssic_df, 5),
                 Lower(Sp(Str(company), Str(DescriptionOrDefault))),
                 _extract_industry_keywords(Lower(Sp(Str(company), Str(DescriptionOrDefault)))),
                 sso.code)[i] = 0

\* C10: when the lexical industry step ran (no credential, or the model's
\* answer was not used) and no 5-digit industry row scores above 0, the
\* record carries the industry code '99999', the title 'Other activities not
\* elsewhere specified' and the confidence 20.0, and nothing was raised.
C10_IndustrySentinel ==
  (pc = "done" /\ ssic.via = "lexical" /\ NoIndustryRowScores) =>
    /\ ~ raised
    /\ result.ssic = [code |-> OtherCode, title |-> OtherTitle, confidence |-> 200]

C10_SentinelAfterFailedCall ==
  /\ pc = "done"
  /\ Truthy(api_key)
  /\ AllCallsFailed
  /\ ssic.via = "lexical"
  /\ NoIndustryRowScores
  /\ result.ssic.code = OtherCode
  /\ result.ssic.confidence = 200


\* C11: when no 5-digit row and no 4-digit row of the industry table scores
\* above 0, find_best_ssic_match returns the code '99999' of 'Other
\* activities not elsewhere specified' with the score 0.2.
C11_SsicMatchSentinel ==
  (probe.op = "find_best_ssic_match" /\ ~ probe.out.exc
   /\ probe.out.five.score = 0 /\ SsicFourScan.score = 0)
    => /\ probe.out.code = OtherCode
       /\ probe.out.score = Times(SCALE, 20)

\* The entries of compatibility_patterns whose prefix the industry code
\* begins with and one of whose compatible prefixes is the first three
\* digits of the occupation code.
EntriesByPrefix(ssic_code, sso_code) ==
  { i \in 1..Len(compatibility_patterns) :
      /\ StartsWith(ssic_code, compatibility_patterns[i].prefix)
      /\ \E j \in 1..Len(compatibility_patterns[i].compatible_sso_prefixes) :
            Prefix(sso_code, 3) = compatibility_patterns[i].compatible_sso_prefixes[j] }

\* C12: for every entry of the compatibility table, with a prefix of 1, 2 or
\* 3 digits, _calculate_ssic_sso_compatibility returns the entry's score for
\* every industry code beginning with the entry's prefix paired with an
\* occupation code whose first three digits are one of the entry's
\* compatible prefixes.
C12_EveryEntryAppliesByPrefix ==
  probe.op = "_calculate_ssic_sso_compatibility" =>
    \A i \in EntriesByPrefix(probe.ssic_code, probe.sso_code) :
       probe.out = Times(SCALE, compatibility_patterns[i].score)

C14_RepeatedCallSameRecord ==
  (pc = "done" /\ probe.op = "first_call" /\ ~ Truthy(api_key)) =>
    /\ result = probe.result
    /\ raised = probe.raised

C14_SecondLexicalCallReturned ==
  /\ pc = "done"
  /\ calls = 2
  /\ probe.op = "first_call"
  /\ ~ Truthy(api_key)
  /\ result = probe.result
  /\ result # UnknownRecord
  /\ result.sso.confidence > 0
  /\ result.ssic.code # OtherCode

\* The reply an LLM call of the given name got in a call of classify_job.
ReplyOf(frame, name) ==
  IF \E i \in 1..Len(frame.llm_calls) : frame.llm_calls[i].call = name
  THEN LET i == CHOOSE i \in 1..Len(frame.llm_calls) : frame.llm_calls[i].call = name
       IN  [ok |-> frame.llm_calls[i].ok, content |-> frame.llm_calls[i].content]
  ELSE LLMFail

\* The company description of a call run alone.
DescriptionAlone(frame) ==
  IF Truthy(frame.api_key)
  THEN generate_company_description(frame.company, frame.job_title, frame.job_description,
                                    ReplyOf(frame, "company_analysis"))
  ELSE << >>

\* The occupation step of a call run alone.
OccupationAlone(frame) ==
  IF Truthy(frame.api_key)
  THEN _ai_enhanced_sso_classification(ssoc_df, frame.company, frame.job_title,
                                       frame.job_description, ReplyOf(frame, "occupation"))
  ELSE LexicalOccupation(ssoc_df, frame.company, frame.job_title, frame.job_description)

\* The industry step of a call run alone, given its description and its
\* occupation.
IndustryAlone(frame, description, occupation) ==
  IF Truthy(frame.api_key) /\ Truthy(description)
  THEN _ai_enhanced_ssic_classification(ssic_df, frame.company, description,
                                        occupation.code, occupation.title,
                                        ReplyOf(frame, "industry"))
  ELSE LexicalIndustry(ssic_df, frame.company,
                       IF Truthy(description) THEN description
                       ELSE DefaultDescription(frame.company),
                       occupation.code)

\* The record a call of classify_job returns when it runs alone on the
\* engine, with the query of the frame and the replies its LLM calls got.
RecordAlone(frame) ==
  IF OccupationAlone(frame).exc THEN UnknownRecord
  ELSE AssembledRecord(
         Classification(IndustryAlone(frame, DescriptionAlone(frame), OccupationAlone(frame))),
         Classification(OccupationAlone(frame)),
         DescriptionAlone(frame))

\* A call that has returned has returned the record it returns alone.
ReturnsAsAlone(frame) ==
  frame.pc = "done" => ~ frame.raised /\ frame.result = RecordAlone(frame)

\* C15: no step of classify_job or of the matchers changes the engine's two
\* tables, and in every interleaving of two concurrent calls of classify_job
\* on one engine each call returns the record it returns when run alone.
C15_ConcurrentCallsIndependent ==
  /\ [][ssic_df' = ssic_df /\ ssoc_df' = ssoc_df]_vars
  /\ [](ReturnsAsAlone(Frame)
        /\ (probe.op = "suspended" => ReturnsAsAlone(probe.frame)))

C15_BothReturnedAfterInterleaving ==
  /\ probe.op = "suspended"
  /\ probe.started_at = "step3"
  /\ pc = "done"
  /\ probe.frame.pc = "done"
  /\ Truthy(api_key)
  /\ Truthy(probe.frame.api_key)
  /\ company # probe.frame.company
  /\ company_description # probe.frame.company_description
  /\ result # probe.frame.result
  /\ result # UnknownRecord
  /\ probe.frame.result # UnknownRecord

\* The company-analysis step of the current call has run and its LLM call
\* failed, or could not be made because building the prompt raised.
CompanyAnalysisFailed ==
  /\ Truthy(api_key)
  /\ pc # "step1"
  /\ \/ PromptRaises(job_description)
     \/ \E i \in 1..Len(llm_calls) :
           llm_calls[i].call = "company_analysis" /\ ~ llm_calls[i].ok

\* C16: generate_company_description never raises; when its LLM call fails
\* it returns a non-empty fallback sentence that is the same for every job
\* title and job description and depends on the company name only.
C16_FallbackFromCompanyOnly ==
  /\ (Truthy(api_key) /\ pc # "step1") =>
        /\ steps[1].step = "company_analysis"
        /\ Len(steps) = 1 => pc = "step2" /\ ~ raised /\ result = NoResult
  /\ CompanyAnalysisFailed =>
        /\ company_description # << >>
        /\ company_description = FallbackDescription(company)
        /\ \A t \in Titles, d \in Descriptions :
             generate_company_description(company, t, d, LLMFail) = company_description

C16_FallbackAfterFailedCall ==
  /\ CompanyAnalysisFailed
  /\ ~ PromptRaises(job_description)
  /\ job_title # None
  /\ pc = "step2"
  /\ company_description = FallbackDescription(company)

\* The score after one boost by factor/100, applied above 0.5 only and
\* clamped to 1.0.
BoostedOnce(score, factor) ==
  IF score > Times(SCALE, 50) THEN Min(Times(score, factor), SCALE) ELSE score

\* The row find_best_ssic_match selects, before any boost.
SsicSelected ==
  SsicSecondTier(probe.out.five, RowsOfLen(ssic_df, 4), company,
                 SsicSearchText(company, job_description),
                 _extract_industry_keywords(SsicSearchText(company, job_description)))

\* The row find_best_sso_match selects, before any boost.
SsoSelected ==
  SsoSecondTier(ssoc_df, probe.out.five, job_title, job_description,
                _extract_job_keywords(SsoSearchText(company, job_title, job_description)))

\* The row _find_best_5digit_ssic_match selects, before any boost.
Ssic5Selected ==
  ScanFrom(RowsOfLen(ssic_df, 5),
           Ssic5Scores(RowsOfLen(ssic_df, 5),
                       Lower(Sp(Str(company), Str(probe.description))),
                       _extract_industry_keywords(Lower(Sp(Str(company), Str(probe.description)))),
                       probe.sso_code),
           1, NoBest)

\* C17: each lexical matcher returns the code and the title of the row it
\* selected by the unboosted scores, and as score the selected row's score
\* boosted once: multiplied by 1.2 (industry) or 1.25 (occupation) when it is
\* strictly above 0.5, clamped to 1.0, and unchanged otherwise.
C17_BoostAfterSelection ==
  /\ (probe.op = "find_best_ssic_match" /\ ~ probe.out.exc) =>
        /\ probe.out.code = SsicSelected.code
        /\ probe.out.title = SsicSelected.title
        /\ probe.out.score = BoostedOnce(SsicSelected.score, 120)
  /\ (probe.op = "find_best_sso_match" /\ ~ probe.out.exc) =>
        /\ probe.out.code = SsoSelected.code
        /\ probe.out.title = SsoSelected.title
        /\ probe.out.score = BoostedOnce(SsoSelected.score, 125)
  /\ (probe.op = "_find_best_5digit_ssic_match" /\ Ssic5Selected.code # << >>) =>
        /\ probe.out.code = Ssic5Selected.code
        /\ probe.out.title = Ssic5Selected.title
        /\ probe.out.score = BoostedOnce(Ssic5Selected.score, 120)

C17_IndustryScoreBoosted ==
  /\ probe.op = "find_best_ssic_match"
  /\ ~ probe.out.exc
  /\ SsicSelected.score > Times(SCALE, 50)
  /\ probe.out.score > SsicSelected.score
  /\ probe.out.score < SCALE
  /\ probe.out.code = SsicSelected.code

\* The two texts have no word in common.
SharesNoWord(text, title) == Words(text) \cap Words(title) = {}

\* C18: for every row of the industry table, a query whose text contains the
\* row's title as a substring gets a combined score for that row that is at
\* or above the combined score of every query whose text shares no word with
\* the title.
C18_TitleInQueryScoresAtLeast ==
  (probe.op = "combined_score" /\ IsSubstr(Lower(probe.row.title), probe.search_text)) =>
    \A c \in Companies, d \in RowQueryDescriptions :
       SharesNoWord(SsicSearchText(c, d), Lower(probe.row.title))
         => IndustryRowScore(probe.row, c, d) <= probe.out

\* The scores of the 5-digit industry rows for a search text under the
\* weights 0.4 / 0.4 / 0.2 with the confidence bonus, without compatibility.
UnconditionedScores(rows, search_text) ==
  [ i \in 1..Len(rows) |->
      SsicCombined(5,
                   enhanced_text_matching(search_text, Lower(rows[i].title)),
                   _calculate_enhanced_keyword_score(_extract_industry_keywords(search_text),
                                                     Lower(rows[i].title)),
                   _calculate_company_industry_score(search_text, Lower(rows[i].title))) ]

\* The industry classification of the current query from those scores:
\* first best row, final boost, default code when no row scores.
UnconditionedIndustry ==
  Ssic5Result(ScanFrom(RowsOfLen(ssic_df, 5),
                       UnconditionedScores(RowsOfLen(ssic_df, 5),
                                           Lower(Sp(Str(company), Str(DescriptionOrDefault)))),
                       1, NoBest))

\* C19: without a credential classify_job scores the 5-digit industry rows
\* as 0.4 x text + 0.4 x keyword + 0.2 x company pattern plus the confidence
\* bonus, so the industry code and confidence of the record are those of the
\* best row under these weights, whatever the occupation code is.
C19_LexicalIndustryUnconditioned ==
  (pc = "done" /\ ~ Truthy(api_key) /\ result # UnknownRecord) =>
    /\ result.ssic.code = UnconditionedIndustry.code
    /\ result.ssic.confidence = Percent(UnconditionedIndustry.score)

\* C20: an industry code that the AI-assisted industry step returns as the
\* model's choice, with confidence 0.90, is the code of one of the
\* candidates of the shortlist presented to the model.
C20_ChoiceFromShortlist ==
  (probe.op = "_ai_enhanced_ssic_classification" /\ probe.out.via = "ai") =>
    /\ probe.out.score = Times(SCALE, 90)
    /\ \E k \in 1..Len(probe.presented) : probe.presented[k].code = probe.out.code

\* The shortlist holds only 5-digit codes, at most 15 of them, in
\* non-increasing order of score.
ShortlistShape(presented) ==
  /\ Len(presented) <= 15
  /\ \A k \in 1..Len(presented) : Len(presented[k].code) = 5
  /\ \A k \in 1..(Len(presented) - 1) : presented[k].score >= presented[k + 1].score

\* C21: the shortlist presented to the model holds only 5-digit codes, at
\* most 15 of them, in non-increasing order of score, and a second call with
\* the same company-analysis text but another company, job title, job
\* description and occupation code builds the same shortlist.
C21_ShortlistFromAnalysisOnly ==
  /\ probe.op = "_ai_enhanced_ssic_classification" => ShortlistShape(probe.presented)
  /\ probe.op = "second_call" =>
       /\ ShortlistShape(probe.presented)
       /\ probe.presented = probe.first

C21_SameShortlistForOtherCompany ==
  /\ probe.op = "second_call"
  /\ probe.description = <<"A"," ","t","e","c","h","n","o","l","o","g","y"," ","c","o","m","p","a","n","y"," ","d","e","v","e","l","o","p","i","n","g"," ","s","o","f","t","w","a","r","e",".">>
  /\ Truthy(probe.occupation)
  /\ Len(probe.presented) = 15
  /\ probe.presented = probe.first
  /\ probe.presented[1].score > probe.presented[15].score

\* A keyword list in non-increasing order of term length with no term twice.
LongestFirstOnce(found_keywords) ==
  /\ \A k \in 1..(Len(found_keywords) - 1) :
       Len(found_keywords[k]) >= Len(found_keywords[k + 1])
  /\ \A j, k \in 1..Len(found_keywords) :
       found_keywords[j] = found_keywords[k] => j = k

\* C22: the lists that _extract_industry_keywords and _extract_job_keywords
\* return for the search texts of the query are in non-increasing order of
\* term length and hold each matched term at most once.
C22_KeywordsLongestFirstOnce ==
  /\ LongestFirstOnce(_extract_industry_keywords(SsicSearchText(company, job_description)))
  /\ LongestFirstOnce(_extract_job_keywords(SsoSearchText(company, job_title, job_description)))

\* The part of C22 that is about _extract_job_keywords alone.
C22_JobKeywordsLongestFirstOnce ==
  LongestFirstOnce(_extract_job_keywords(SsoSearchText(company, job_title, job_description)))

\* The search words C23 counts: of length 4 or more and a substring of, or
\* containing, a target word that is itself of length 4 or more.
PartialMatchesOfLongWords(search_words, target_words) ==
  { search_word \in search_words :
      /\ Len(search_word) >= 4
      /\ \E target_word \in target_words :
            /\ Len(target_word) >= 4
            /\ (IsSubstr(search_word, target_word) \/ IsSubstr(target_word, search_word)) }

\* The titles of the rows of both tables.
RowTitles ==
  { ssic_df[i].title : i \in 1..Len(ssic_df) } \cup { ssoc_df[i].title : i \in 1..Len(ssoc_df) }

\* C23: for the industry search text of the query and the title of every
\* row, the search words enhanced_text_matching counts as partial matches
\* are those of length 4 or more that are a substring of, or contain, a
\* target word of length 4 or more, each counted once.
C23_PartialNeedsLongTargetWord ==
  \A title \in RowTitles :
     PartialMatches(Words(SsicSearchText(company, job_description)), Words(Lower(title)))
       = PartialMatchesOfLongWords(Words(SsicSearchText(company, job_description)),
                                   Words(Lower(title)))

\* The part of C23 that holds: a counted search word has length 4 or more and
\* is counted once, as a member of the set of search words.
C23_PartialNeedsLongSearchWord ==
  \A title \in RowTitles :
     \A search_word \in PartialMatches(Words(SsicSearchText(company, job_description)),
                                       Words(Lower(title))) :
        /\ Len(search_word) >= 4
        /\ search_word \in Words(SsicSearchText(company, job_description))

\* A bonus that is 0 or within 0.15 to 0.25.
BonusInRange(bonus) ==
  bonus = 0 \/ (Times(SCALE, 15) <= bonus /\ bonus <= Times(SCALE, 25))

\* C24: for the same component scores the confidence bonus of the 4-digit
\* scan is never larger than the bonus of the 5-digit scan, and every bonus
\* is 0 or within 0.15 to 0.25, in the industry and in the occupation matcher.
C24_CoarserScanBonusNotLarger ==
  probe.op = "confidence_boost" =>
    /\ probe.four <= probe.five
    /\ BonusInRange(probe.four)
    /\ BonusInRange(probe.five)

\* The part of C24 that holds: every bonus of the industry matcher and every
\* bonus of a 5-digit scan is 0 or within 0.15 to 0.25.
C24_FineScanBonusInRange ==
  probe.op = "confidence_boost" =>
    /\ BonusInRange(probe.five)
    /\ probe.matcher = "find_best_ssic_match" => BonusInRange(probe.four)

\* C25: generate_batch_descriptions builds one result per job processed, in
\* input order; each result holds the fields of its own input job unchanged
\* plus 'generated_description' and 'status'; a job is marked 'Failed' exactly
\* when its own processing raised, whatever happened to the jobs before it;
\* the loop goes on to the end of the list, and the input list is as the
\* caller gave it.
C25_OneResultPerJobInOrder ==
  probe.op \in {"generate_batch_descriptions", "returned"} =>
    /\ probe.job_data = probe.given
    /\ Len(probe.results) = probe.idx - 1
    /\ probe.op = "returned" => Len(probe.results) = Len(probe.given)
    /\ \A i \in 1..Len(probe.results) :
          /\ DOMAIN probe.results[i]
               = DOMAIN probe.given[i] \cup {"generated_description", "status"}
          /\ \A k \in DOMAIN probe.given[i] : probe.results[i][k] = probe.given[i][k]
          /\ probe.results[i]["status"]
               = (IF probe.outcomes[i].raised THEN <<"F","a","i","l","e","d">> ELSE <<"S","u","c","c","e","s","s">>)
          /\ ~ probe.outcomes[i].raised =>
                probe.results[i]["generated_description"] = probe.outcomes[i].value

C25_FailureBetweenTwoSuccesses ==
  /\ probe.op = "returned"
  /\ Len(probe.given) = 3
  /\ Len(probe.results) = 3
  /\ probe.given[1] # probe.given[3]
  /\ probe.results[1]["status"] = <<"S","u","c","c","e","s","s">>
  /\ probe.results[2]["status"] = <<"F","a","i","l","e","d">>
  /\ probe.results[3]["status"] = <<"S","u","c","c","e","s","s">>
  /\ probe.results[3]["company"] = probe.given[3]["company"]

\* The place of an LLM call in the order company analysis, occupation, industry.
LlmCallRank(call) ==
  CASE call = "company_analysis" -> 1
    [] call = "occupation" -> 2
    [] call = "industry" -> 3
    [] OTHER -> 0

\* C26: a call of classify_job without a credential makes no LLM call; with a
\* credential it makes at most three, in the order company analysis,
\* occupation, industry, none twice; the industry call is made only when the
\* company-analysis text is non-empty; and a returned record has the field
\* company_description only when a credential was given and the text is
\* non-empty.
C26_AtMostThreeCallsInOrder ==
  /\ ~ Truthy(api_key) => llm_calls = << >>
  /\ Len(llm_calls) <= 3
  /\ \A i \in 1..Len(llm_calls) : LlmCallRank(llm_calls[i].call) \in 1..3
  /\ \A i \in 1..(Len(llm_calls) - 1) :
        LlmCallRank(llm_calls[i].call) < LlmCallRank(llm_calls[i + 1].call)
  /\ \A i \in 1..Len(llm_calls) :
        llm_calls[i].call = "industry" => Truthy(company_description)
  /\ (pc = "done" /\ "company_description" \in DOMAIN result) =>
        /\ Truthy(api_key)
        /\ Truthy(result.company_description)
        /\ result.company_description = company_description

C26_ThreeCallsAndField ==
  /\ pc = "done"
  /\ [i \in 1..Len(llm_calls) |-> llm_calls[i].call]
       = <<"company_analysis", "occupation", "industry">>
  /\ ~ llm_calls[2].ok
  /\ "company_description" \in DOMAIN result

\* A credential, an empty company-analysis text: two calls and no field.
C26_TwoCallsNoField ==
  /\ pc = "done"
  /\ Truthy(api_key)
  /\ [i \in 1..Len(llm_calls) |-> llm_calls[i].call] = <<"company_analysis", "occupation">>
  /\ "ssic" \in DOMAIN result
  /\ "company_description" \notin DOMAIN result

\* The first row in table order among the rows with the highest score, when
\* that score is above 0; no row otherwise.
FirstBest(rows, scores) ==
  IF \E i \in 1..Len(rows) : scores[i] > 0
  THEN LET first == CHOOSE i \in 1..Len(rows) :
                      /\ \A j \in 1..Len(rows) : scores[j] <= scores[i]
                      /\ \A j \in 1..(i - 1) : scores[j] < scores[i]
       IN  [code |-> rows[first].code, title |-> rows[first].title, score |-> scores[first]]
  ELSE NoBest

\* The best of the two tiers: the 4-digit row only when the 4-digit rows
\* were scanned and it scores strictly higher than the best 5-digit row.
StrictlyBetter(five, four) ==
  IF ScansFourDigit(five.score) /\ four.score > five.score THEN four ELSE five

\* The first best row of the 4-digit industry rows for the query.
SsicFirstBestFour ==
  FirstBest(RowsOfLen(ssic_df, 4),
            SsicScores(RowsOfLen(ssic_df, 4), company,
                       SsicSearchText(company, job_description),
                       _extract_industry_keywords(SsicSearchText(company, job_description)), 4))

\* The first best row of the 5-digit industry rows for the query.
SsicFirstBestFive ==
  FirstBest(RowsOfLen(ssic_df, 5),
            SsicScores(RowsOfLen(ssic_df, 5), company,
                       SsicSearchText(company, job_description),
                       _extract_industry_keywords(SsicSearchText(company, job_description)), 5))

\* The first best row of the 4-digit occupation rows for the query.
SsoFirstBestFour ==
  FirstBest(RowsOfLen(ssoc_df, 4),
            SsoScores(RowsOfLen(ssoc_df, 4), job_title, job_description,
                      _extract_job_keywords(SsoSearchText(company, job_title, job_description)), 4))

\* The first best row of the 5-digit occupation rows for the query.
SsoFirstBestFive ==
  FirstBest(RowsOfLen(ssoc_df, 5),
            SsoScores(RowsOfLen(ssoc_df, 5), job_title, job_description,
                      _extract_job_keywords(SsoSearchText(company, job_title, job_description)), 5))

\* The first best row of the scan of _find_best_5digit_ssic_match.
Ssic5FirstBest ==
  FirstBest(RowsOfLen(ssic_df, 5),
            Ssic5Scores(RowsOfLen(ssic_df, 5),
                        Lower(Sp(Str(company), Str(probe.description))),
                        _extract_industry_keywords(Lower(Sp(Str(company), Str(probe.description)))),
                        probe.sso_code))

\* C27: every lexical scan keeps the first row in table order among the rows
\* of its tier with the highest score; a 4-digit row replaces the best
\* 5-digit row only when it scores strictly higher; and a row that scores 0
\* is never returned.
C27_FirstOfTiesStrictlyGreater ==
  /\ (probe.op = "find_best_ssic_match" /\ ~ probe.out.exc) =>
        /\ probe.out.five = SsicFirstBestFive
        /\ probe.out.code = StrictlyBetter(SsicFirstBestFive, SsicFirstBestFour).code
        /\ probe.out.title = StrictlyBetter(SsicFirstBestFive, SsicFirstBestFour).title
        /\ probe.out.code # << >> => probe.out.score > 0
  /\ (probe.op = "find_best_sso_match" /\ ~ probe.out.exc) =>
        /\ probe.out.five = SsoFirstBestFive
        /\ probe.out.code = StrictlyBetter(SsoFirstBestFive, SsoFirstBestFour).code
        /\ probe.out.title = StrictlyBetter(SsoFirstBestFive, SsoFirstBestFour).title
        /\ probe.out.code # << >> => probe.out.score > 0
  /\ (probe.op = "_find_best_5digit_ssic_match" /\ Ssic5FirstBest.code # << >>) =>
        /\ probe.out.code = Ssic5FirstBest.code
        /\ probe.out.title = Ssic5FirstBest.title
        /\ probe.out.score > 0
  /\ (probe.op = "_find_best_5digit_ssic_match" /\ Ssic5FirstBest.code = << >>) =>
        probe.out.code = OtherCode

\* Two 5-digit rows and a 4-digit row tie above 0 and below 0.4: the first
\* 5-digit row in table order is returned.
C27_TieBetweenRowsAndTiers ==
  /\ probe.op = "find_best_ssic_match"
  /\ ssic_df = SsicTableWithTies
  /\ ~ probe.out.exc
  /\ probe.out.scanned4
  /\ probe.out.five.score > 0
  /\ SsicFirstBestFour.score = probe.out.five.score
  /\ probe.out.code = <<"6","2","0","1","2">>

\* The job title and the row's title both hold a seniority marker, or neither does.
SeniorityAgrees(title_arg, sso_title) ==
  AnyIn(seniority_levels, Lower(title_arg)) = AnyIn(seniority_levels, Lower(sso_title))

\* The 5-digit and the 4-digit rows of the occupation table.
OccupationRows ==
  { ssoc_df[i] : i \in { j \in 1..Len(ssoc_df) : Len(ssoc_df[j].code) \in {4, 5} } }

\* The combined score find_best_sso_match gives a row for the query.
OccupationRowScore(row) ==
  SsoRowScore(job_title, job_description,
              _extract_job_keywords(SsoSearchText(company, job_title, job_description)),
              Lower(row.title), Len(row.code))

\* C28: a row of 5 or 4 digits whose title agrees with the job title on the
\* presence of a seniority marker scores at least 0.025, and find_best_sso_match
\* then returns a non-empty code; it returns the empty code, with score 0,
\* only when every such row scores 0; and when the lexical occupation step
\* of classify_job gave the empty code, the returned record is not the
\* 'Unknown' record and carries the empty occupation code with confidence 0.0.
C28_EmptyOccupationOnlyWhenAllZero ==
  /\ (probe.op = "find_best_sso_match" /\ ~ probe.out.exc) =>
        /\ \A row \in OccupationRows :
              SeniorityAgrees(job_title, row.title) =>
                 /\ OccupationRowScore(row) >= SCALE \div 40
                 /\ probe.out.code # << >>
        /\ probe.out.code = << >> =>
              /\ probe.out.score = 0
              /\ \A row \in OccupationRows : OccupationRowScore(row) = 0
  /\ (pc = "done" /\ sso.via = "lexical" /\ sso.code = << >>) =>
        /\ result # UnknownRecord
        /\ result.sso.code = << >>
        /\ result.sso.confidence = 0

C28_RowsAllZeroEmptyCodeReported ==
  /\ probe.op = "find_best_sso_match"
  /\ ~ probe.out.exc
  /\ ssoc_df = SsocTableOfFinance
  /\ probe.out.code = << >>
  /\ pc = "done"
  /\ sso.via = "lexical"
  /\ result.sso.code = << >>
  /\ result.sso.confidence = 0

\* A row that agrees on seniority and scores exactly 0.025 is returned.
C28_SeniorityAloneGivesCode ==
  /\ probe.op = "find_best_sso_match"
  /\ ~ probe.out.exc
  /\ probe.out.score = SCALE \div 40
  /\ probe.out.code # << >>

\* C29: what enhance_classification_with_ai returns has the industry and the
\* occupation (code, title, confidence) of the classify_job call without a
\* credential for the same query, whether the validation call replied or
\* failed; the only other field it can have is 'ai_validation'.
C29_ValidationNeverAltersCodes ==
  (probe.op = "enhance_classification_with_ai" /\ probe.returned) =>
     /\ probe.out["ssic"] = probe.base["ssic"]
     /\ probe.out["sso"] = probe.base["sso"]
     /\ DOMAIN probe.out \subseteq DOMAIN probe.base \cup {"ai_validation"}
     /\ DOMAIN probe.base \subseteq DOMAIN probe.out
     /\ probe.failed => probe.out = probe.base

C29_SuggestionAttachedOnly ==
  /\ probe.op = "enhance_classification_with_ai"
  /\ probe.returned
  /\ "ai_validation" \in DOMAIN probe.out
  /\ probe.out["ai_validation"] = <<"B","e","t","t","e","r"," ","m","a","t","c","h",":"," ","S","S","I","C"," ","6","4","1","9","1",","," ","S","S","O"," ","2","4","1","3","1">>
  /\ probe.out["ssic"].code = <<"6","2","0","1","2">>
  /\ probe.out["ssic"] = probe.base["ssic"]

\* The validation call failed and the second classify_job gave the record.
C29_FallbackAfterFailedValidation ==
  /\ probe.op = "enhance_classification_with_ai"
  /\ probe.returned
  /\ probe.failed
  /\ calls = 2
  /\ probe.out = probe.base
  /\ probe.out # UnknownRecord

\* A score at most 0.5, or strictly above the upper end of the gap.
OutsideGap(score, upper) == score <= Times(SCALE, 50) \/ score > upper

\* 0.6 and 0.625 = 5/8.
UpperSsic == Times(SCALE, 60)
UpperSso == (SCALE \div 8) * 5

\* C30: the score a lexical matcher reports after its final boost is at most
\* 0.5 or strictly above 0.6 (industry, x1.2) or 0.625 (occupation, x1.25),
\* and a best score of exactly 0.5 is reported as it is.
C30_NoScoreJustAboveHalf ==
  probe.op = "final_boost" =>
    /\ OutsideGap(probe.ssic, UpperSsic)
    /\ OutsideGap(probe.sso, UpperSso)
    /\ probe.best_score = Times(SCALE, 50) =>
          (probe.ssic = probe.best_score /\ probe.sso = probe.best_score)
    /\ probe.best_score <= Times(SCALE, 50) =>
          (probe.ssic = probe.best_score /\ probe.sso = probe.best_score)

C30_JustAboveHalfIsBoosted ==
  /\ probe.op = "final_boost"
  /\ probe.best_score = Times(SCALE, 50) + 1
  /\ probe.ssic > UpperSsic
  /\ probe.sso > UpperSso
  /\ probe.ssic < probe.sso

\* The same of the scores the three matchers return for the queries.
C30_MatchersReportOutsideGap ==
  /\ (probe.op \in {"find_best_ssic_match", "_find_best_5digit_ssic_match"}) =>
        OutsideGap(probe.out.score, UpperSsic)
  /\ probe.op = "find_best_sso_match" => OutsideGap(probe.out.score, UpperSso)
====
